---- MODULE Spec2Model ----
(***************************************************************************)
(* Rendering core of the Vulkan engine.                                    *)
(*                                                                         *)
(* Spec        the per-frame state machine of Renderer (BeginFrame /       *)
(*             RecordCommands / EndFrameAndPresent), driven by             *)
(*             Application::MainLoop, with the device that executes the    *)
(*             submitted work and the window that delivers resize events.  *)
(* SpecRecord  the command stream Renderer::RecordCommands records for a   *)
(*             renderable list.                                            *)
(* SpecBuffer  one VulkanBuffer: construction, Map, Unmap, WriteToBuffer.  *)
(* SpecUtils   Utils::TransitionImageLayout and Utils::GenerateMipmaps.    *)
(***************************************************************************)
EXTENDS Integers, Sequences, FiniteSets, TLC

\* ---------------------------------------------------------------- constants
MAX_FRAMES_IN_FLIGHT == 2

\* ------------------------------------------------------------------ bounds
MaxImages == 2
MaxWidth == 1
MaxHeight == 1
MaxRecreate == 1
MaxRenderables == 2
MaxInstanceSize == 2
MaxInstanceCount == 1
MaxAlignment == 3
MaxTexDim == 4
MaxMipLevels == 4
MaxMinImageCount == 2
MinExtent == 1
MaxRequest == 3
MaxSwapchains == 3
MaxFrameCount == 3
MaxSamplerLod == 1
MaxAnisotropy == 1
MaxModelMaterials == 2
MaxSubSteps == 2
MaxKeyCode == 1
MaxMouseButton == 0
MaxGameObjects == 3
ManyImages == 3

Slots == 0 .. (MAX_FRAMES_IN_FLIGHT - 1)
ImageCounts == 1 .. MaxImages
Sizes == (0 .. MaxWidth) \X (0 .. MaxHeight)
Extents == (1 .. MaxWidth) \X (1 .. MaxHeight)
Cameras == {"identity", "camera"}

VK_SUCCESS == "VK_SUCCESS"
VK_SUBOPTIMAL_KHR == "VK_SUBOPTIMAL_KHR"
VK_ERROR_OUT_OF_DATE_KHR == "VK_ERROR_OUT_OF_DATE_KHR"
VK_ERROR_OUT_OF_HOST_MEMORY == "VK_ERROR_OUT_OF_HOST_MEMORY"
VkResults == {VK_SUCCESS, VK_SUBOPTIMAL_KHR, VK_ERROR_OUT_OF_DATE_KHR, VK_ERROR_OUT_OF_HOST_MEMORY}
VK_NULL_HANDLE == [gen |-> -1]
VK_LOD_CLAMP_NONE == 1000
NoFramebuffer == [kind |-> "none"]

VARIABLES
    headless,               \* TRUE: the renderer is the NullRenderer stand-in
    slotObjects,            \* kind of per-slot object -> slot -> handle created by InitVulkan
    mainCamera,             \* what Scene::GetMainCamera returns: a camera or null ("identity")
    pc,                     \* position of the render thread in MainLoop
    m_CurrentFrameIndex,
    m_CurrentImageIndex,
    m_FramebufferResized,
    m_InFlightFences,       \* slot -> signaled
    m_ImageAvailableSemaphores,
    m_RenderFinishedSemaphores,
    m_CommandBuffers,       \* slot -> [state, framebuffer]
    m_UniformBuffers,       \* slot -> contents of the camera/light UBO pair
    m_Swapchain,            \* [gen, extent, views]
    images,                 \* image index -> [st, sem]
    m_DepthImage,
    m_RenderPass,
    m_GraphicsPipeline,
    m_SwapChainFramebuffers,
    graphicsQueue,          \* submitted, unfinished command buffers (FIFO)
    presentQueue,           \* queued presentation requests (FIFO)
    fbSize,                 \* the window's framebuffer size
    width_height,           \* the locals width,height of RecreateSwapchain
    lastCall                \* the last frame call of the render thread and its results

\* the command stream of one frame (SpecRecord)
VARIABLES
    m_LoadedMaterials,      \* AssetManager: material handle -> [descriptorSet]
    renderables,            \* the list handed to RecordCommands
    uiDrawData,             \* what the UI collaborator holds for this frame
    commandBuffer,          \* the commands recorded into the slot's command buffer
    warnedOnce,             \* the static flag of the VKENG_WARN_ONCE site in RecordCommands
    log,                    \* the warnings logged by the last RecordCommands
    recPc                   \* "record": the buffer is open and empty; "end": recorded

\* one VulkanBuffer and the device memory bound to it (SpecBuffer)
VARIABLES
    buffer,                 \* the members of the VulkanBuffer object
    memory,                 \* the bytes of the VkDeviceMemory allocation
    bufCall                 \* the last call on the buffer, its arguments and result

\* the transfer utilities (SpecUtils)
VARIABLES
    oneShot,                \* the single-use command buffer: its state and commands
    utilCall                \* the last utility call, its arguments and result

\* one Swapchain object and the surface it presents to (SpecSwapchain)
VARIABLES
    surface,                \* the VulkanContext handles and what the surface reports
    swapchain,              \* the members of the Swapchain object and its lifetime
    vkSwapchains,           \* VkSwapchainKHR handle -> how often it was destroyed
    scCall                  \* the last call on the Swapchain and its result

\* one CommandManager (SpecCommands)
VARIABLES
    cmdManager,             \* the members of the CommandManager object
    cmdCall                 \* the last call on the CommandManager and its result

\* one SamplerCache (SpecSamplers)
VARIABLES
    samplerCache,           \* m_SamplerMap and the samplers created on the device
    samplerCall,            \* the last call on the SamplerCache and its result
    samplerLog              \* the GetOrCreateSampler calls made and their results

\* the materials of the AssetManager (SpecMaterials)
VARIABLES
    assetManager,           \* m_LoadedMaterials, the name and path maps, the descriptor pool
    assetCall               \* the last call on the AssetManager and its result

\* the collision callbacks of the PhysicsSystem (SpecPhysics)
VARIABLES
    physicsSystem,          \* the world's contacts and the tick callback's pair sets
    physicsCall             \* the notifications delivered by the last Update

\* the InputManager (SpecInput)
VARIABLES
    inputManager,           \* the key and mouse button state tables
    inputCall               \* the last callback or Update

\* one Scene (SpecScene)
VARIABLES
    currentScene,           \* the object list, the destruction list, the main camera
    sceneCall               \* the last call on the Scene and its result

frameVars == <<headless, slotObjects, mainCamera, pc, m_CurrentFrameIndex, m_CurrentImageIndex, m_FramebufferResized,
          m_InFlightFences, m_ImageAvailableSemaphores, m_RenderFinishedSemaphores,
          m_CommandBuffers, m_UniformBuffers, m_Swapchain, images, m_DepthImage,
          m_RenderPass, m_GraphicsPipeline, m_SwapChainFramebuffers, graphicsQueue,
          presentQueue, fbSize, width_height, lastCall>>

recordVars == <<m_LoadedMaterials, renderables, uiDrawData, commandBuffer, warnedOnce, log, recPc>>
bufferVars == <<buffer, memory, bufCall>>
utilVars == <<oneShot, utilCall>>
swapVars == <<surface, swapchain, vkSwapchains, scCall>>
cmdVars == <<cmdManager, cmdCall>>
samplerVars == <<samplerCache, samplerCall, samplerLog>>
assetVars == <<assetManager, assetCall>>
physicsVars == <<physicsSystem, physicsCall>>
inputVars == <<inputManager, inputCall>>
sceneVars == <<currentScene, sceneCall>>

vars == <<frameVars, recordVars, bufferVars, utilVars, swapVars, cmdVars, samplerVars, assetVars, physicsVars, inputVars, sceneVars>>

syncVars == <<m_InFlightFences, m_ImageAvailableSemaphores, m_RenderFinishedSemaphores>>
dependentVars == <<m_DepthImage, m_RenderPass, m_GraphicsPipeline, m_SwapChainFramebuffers>>
queueVars == <<graphicsQueue, presentQueue>>

\* ------------------------------------------------------- swapchain helpers
\* Swapchain::ChooseSwapExtent: a fixed capability extent wins, otherwise the
\* requested size clamped to the capability's [min,max].  <<0, 0>> stands for
\* the unconstrained sentinel (currentExtent.width == UINT32_MAX).
Clamp(v, lo, hi) == IF v < lo THEN lo ELSE IF v > hi THEN hi ELSE v

\* std::numeric_limits<uint32_t>::max(), that is (uint32_t)-1: the width of the
\* unconstrained currentExtent; only ever compared for equality
UINT32_MAX == -1

ChooseSwapExtentCaps_AlwaysClamps(capabilities, windowWidth, windowHeight) ==
    << Clamp(windowWidth, capabilities.minImageExtent[1], capabilities.maxImageExtent[1]),
       Clamp(windowHeight, capabilities.minImageExtent[2], capabilities.maxImageExtent[2]) >>

\* Swapchain::ChooseSwapExtent on the capabilities the surface reports
ChooseSwapExtentCaps(capabilities, windowWidth, windowHeight) ==
    IF capabilities.currentExtent[1] # UINT32_MAX
    THEN capabilities.currentExtent
    ELSE << Clamp(windowWidth, capabilities.minImageExtent[1], capabilities.maxImageExtent[1]),
            Clamp(windowHeight, capabilities.minImageExtent[2], capabilities.maxImageExtent[2]) >>

\* the same for the frame model's surface, whose extents range over
\* [1, MaxWidth] x [1, MaxHeight]
ChooseSwapExtent(fixed, requested) ==
    ChooseSwapExtentCaps([ currentExtent  |-> IF fixed = <<0, 0>>
                                              THEN <<UINT32_MAX, UINT32_MAX>> ELSE fixed,
                           minImageExtent |-> <<1, 1>>,
                           maxImageExtent |-> <<MaxWidth, MaxHeight>> ],
                         requested[1], requested[2])

\* Swapchain::CreateSwapchainImageViews: one view per retrieved image.
CreateSwapchainImageViews(gen, count) == [i \in 1 .. count |-> [gen |-> gen, image |-> i - 1]]

\* Swapchain::Init: a new swapchain of `count` images.
SwapchainInit(gen, extent, count) ==
    [gen |-> gen, extent |-> extent, views |-> CreateSwapchainImageViews(gen, count)]

\* Swapchain::Init with a null device: nothing is created.
SwapchainHeadless == [gen |-> 0, extent |-> <<0, 0>>, views |-> <<>>]

FreshImages(count) == [k \in 0 .. (count - 1) |-> [st |-> "pe", sem |-> 0]]

\* ------------------------------------------- swapchain dependent resources
CreateDepthResources(sc) == [gen |-> sc.gen, extent |-> sc.extent]

CreateRenderPass(sc) == [gen |-> sc.gen]

CreateGraphicsPipeline(rp) == [gen |-> rp.gen]

CreateFramebuffers(sc, rp, depth) ==
    [i \in 1 .. Len(sc.views) |->
        [kind |-> "framebuffer", view |-> sc.views[i], renderPass |-> rp, depth |-> depth,
         extent |-> sc.extent]]

\* ----------------------------------------------------------- frame helpers
WaitForFences_NoWait(i) == TRUE

\* vkWaitForFences on the slot's fence returns once the fence is signaled.
WaitForFences(i) == m_InFlightFences[i]

WaitForDeviceIdle_NoWait == TRUE

\* vkDeviceWaitIdle returns once every queue has drained.
WaitForDeviceIdle == graphicsQueue = <<>> /\ presentQueue = <<>>

\* the loop condition of RecreateSwapchain
SizeIsZero(sz) == sz[1] = 0 \/ sz[2] = 0

NextFrameIndex_NoWrap(i) == i + 1

NextFrameIndex(i) == (i + 1) % MAX_FRAMES_IN_FLIGHT

\* submitInfo.pWaitSemaphores = m_ImageAvailableSemaphores[m_CurrentFrameIndex]
WaitSemaphoreIndex(i) == i

\* submitInfo.pSignalSemaphores = m_RenderFinishedSemaphores[m_CurrentFrameIndex]
SignalSemaphoreIndex(i) == i

\* presentInfo.pWaitSemaphores = signalSemaphores
PresentWaitSemaphoreIndex(i) == SignalSemaphoreIndex(i)

AcquireIsStale_Never(res) == FALSE

AcquireIsStale(res) == res = VK_ERROR_OUT_OF_DATE_KHR

AcquireIsFatal(res) == res # VK_SUCCESS /\ res # VK_SUBOPTIMAL_KHR

PresentMarksDirty_StaleOnly(res, resized) == res = VK_ERROR_OUT_OF_DATE_KHR

PresentMarksDirty(res, resized) ==
    res = VK_ERROR_OUT_OF_DATE_KHR \/ res = VK_SUBOPTIMAL_KHR \/ resized

PresentIsFatal(res, resized) == ~PresentMarksDirty(res, resized) /\ res # VK_SUCCESS

\* a presentation request is queued (its semaphore wait included) unless the
\* call failed outright; an out-of-date request is queued but rejected
PresentEnqueued(res) == res \in {VK_SUCCESS, VK_SUBOPTIMAL_KHR, VK_ERROR_OUT_OF_DATE_KHR}

SlotBusy(i) == \E n \in 1 .. Len(graphicsQueue) : graphicsQueue[n].slot = i

NoCall == [op |-> "none", acquire |-> "none", submit |-> "none", present |-> "none", ret |-> "none"]

Call(op, a, s, p, r) == [op |-> op, acquire |-> a, submit |-> s, present |-> p, ret |-> r]

\* the per-slot objects of Renderer::InitVulkan: CommandManager's buffers,
\* the camera and light uniform buffers, the frame descriptor sets and the
\* semaphores and fences of CreateSyncObjects, MAX_FRAMES_IN_FLIGHT of each
SlotObjectKinds ==
    {"m_CommandBuffers", "m_UniformBuffers", "m_LightUniformBuffers", "m_FrameDescriptorSets",
     "m_ImageAvailableSemaphores", "m_RenderFinishedSemaphores", "m_InFlightFences"}

InitVulkanSlotObjects == [kind \in SlotObjectKinds |-> [i \in Slots |-> [gen |-> 0]]]

\* the NullRenderer creates none of them
NoSlotObjects == [kind \in SlotObjectKinds |-> [i \in Slots |-> VK_NULL_HANDLE]]

\* ------------------------------------------------ components left at rest
\* Each specification drives one component; the variables of the others keep
\* these values.
FrameAtRest ==
    /\ headless = TRUE
    /\ slotObjects = NoSlotObjects
    /\ mainCamera = "identity"
    /\ pc = "idle"
    /\ m_CurrentFrameIndex = 0
    /\ m_CurrentImageIndex = 0
    /\ m_FramebufferResized = FALSE
    /\ m_InFlightFences = [i \in Slots |-> TRUE]
    /\ m_ImageAvailableSemaphores = [i \in Slots |-> FALSE]
    /\ m_RenderFinishedSemaphores = [i \in Slots |-> FALSE]
    /\ m_CommandBuffers = [i \in Slots |-> [state |-> "initial", framebuffer |-> NoFramebuffer]]
    /\ m_UniformBuffers = [i \in Slots |-> "none"]
    /\ m_Swapchain = SwapchainHeadless
    /\ images = FreshImages(0)
    /\ m_DepthImage = VK_NULL_HANDLE
    /\ m_RenderPass = VK_NULL_HANDLE
    /\ m_GraphicsPipeline = VK_NULL_HANDLE
    /\ m_SwapChainFramebuffers = <<>>
    /\ graphicsQueue = <<>>
    /\ presentQueue = <<>>
    /\ fbSize = <<0, 0>>
    /\ width_height = <<0, 0>>
    /\ lastCall = NoCall

RecordAtRest ==
    /\ m_LoadedMaterials = <<>>
    /\ renderables = <<>>
    /\ uiDrawData = "uninitialized"
    /\ commandBuffer = <<>>
    /\ warnedOnce = FALSE
    /\ log = <<>>
    /\ recPc = "record"

BufferAtRest ==
    /\ buffer = [m_Buffer |-> FALSE]
    /\ memory = <<>>
    /\ bufCall = [op |-> "none", ret |-> "none", flushed |-> FALSE]

UtilsAtRest ==
    /\ oneShot = [state |-> "none", commands |-> <<>>, fence |-> "none"]
    /\ utilCall = [op |-> "none", ret |-> "none"]

SwapchainAtRest ==
    /\ surface = [device |-> FALSE, surface |-> FALSE]
    /\ swapchain = [life |-> "none"]
    /\ vkSwapchains = <<>>
    /\ scCall = [op |-> "none", ret |-> "none"]

CommandsAtRest ==
    /\ cmdManager = [life |-> "none"]
    /\ cmdCall = [op |-> "none", ret |-> "none"]

SamplersAtRest ==
    /\ samplerCache = [life |-> "none"]
    /\ samplerCall = [op |-> "none", ret |-> "none"]
    /\ samplerLog = {}

AssetsAtRest ==
    /\ assetManager = [life |-> "none"]
    /\ assetCall = [op |-> "none", ret |-> "none"]

PhysicsAtRest ==
    /\ physicsSystem = [life |-> "none"]
    /\ physicsCall = [op |-> "none"]

InputAtRest ==
    /\ inputManager = [life |-> "none"]
    /\ inputCall = [op |-> "none"]

SceneAtRest ==
    /\ currentScene = [life |-> "none"]
    /\ sceneCall = [op |-> "none"]

\* -------------------------------------------------------------------- Init
InitReal ==
    /\ headless = FALSE
    /\ slotObjects = InitVulkanSlotObjects
    /\ \E ext \in Extents, count \in ImageCounts :
        /\ fbSize = ext
        /\ m_Swapchain = SwapchainInit(0, ext, count)
        /\ images = FreshImages(count)
    /\ m_DepthImage = CreateDepthResources(m_Swapchain)
    /\ m_RenderPass = CreateRenderPass(m_Swapchain)
    /\ m_GraphicsPipeline = CreateGraphicsPipeline(m_RenderPass)
    /\ m_SwapChainFramebuffers = CreateFramebuffers(m_Swapchain, m_RenderPass, m_DepthImage)

InitHeadless ==
    /\ headless = TRUE
    /\ slotObjects = NoSlotObjects
    /\ fbSize = <<0, 0>>
    /\ m_Swapchain = SwapchainHeadless
    /\ images = FreshImages(0)
    /\ m_DepthImage = VK_NULL_HANDLE
    /\ m_RenderPass = VK_NULL_HANDLE
    /\ m_GraphicsPipeline = VK_NULL_HANDLE
    /\ m_SwapChainFramebuffers = <<>>

Init ==
    /\ pc = "idle"
    /\ mainCamera \in Cameras
    /\ m_CurrentFrameIndex = 0
    /\ m_CurrentImageIndex = 0
    /\ m_FramebufferResized = FALSE
    /\ m_InFlightFences = [i \in Slots |-> TRUE]
    /\ m_ImageAvailableSemaphores = [i \in Slots |-> FALSE]
    /\ m_RenderFinishedSemaphores = [i \in Slots |-> FALSE]
    /\ m_CommandBuffers = [i \in Slots |-> [state |-> "initial", framebuffer |-> NoFramebuffer]]
    /\ m_UniformBuffers = [i \in Slots |-> "none"]
    /\ graphicsQueue = <<>>
    /\ presentQueue = <<>>
    /\ width_height = <<0, 0>>
    /\ lastCall = NoCall
    /\ (InitReal \/ InitHeadless)
    /\ RecordAtRest
    /\ BufferAtRest
    /\ UtilsAtRest
    /\ SwapchainAtRest
    /\ CommandsAtRest
    /\ SamplersAtRest
    /\ AssetsAtRest
    /\ PhysicsAtRest
    /\ InputAtRest
    /\ SceneAtRest


\* ------------------------------------------------------------ window events
\* Window::FramebufferSizeCallbackGLFW -> the resize callback installed by
\* Application::Initialize -> Renderer::HandleResize.  Events are delivered
\* by PollEvents at the top of MainLoop and by glfwWaitEvents in the
\* minimized-window loop of RecreateSwapchain.
HandleResize(resized) == TRUE

WindowResize(sz) ==
    /\ ~headless
    /\ pc \in {"idle", "spin"}
    /\ sz # fbSize
    /\ fbSize' = sz
    /\ m_FramebufferResized' =
          IF sz[1] = 0 \/ sz[2] = 0 THEN m_FramebufferResized
          ELSE HandleResize(m_FramebufferResized)
    /\ UNCHANGED <<headless, slotObjects, mainCamera, pc, m_CurrentFrameIndex, m_CurrentImageIndex, syncVars,
                   m_CommandBuffers, m_UniformBuffers, m_Swapchain, images, dependentVars,
                   queueVars, width_height, lastCall>>

BeginFrameNull_ReturnsTrue ==
    /\ headless
    /\ pc = "idle"
    /\ lastCall' = Call("BeginFrame", "none", "none", "none", "true")
    /\ pc' = "record"
    /\ UNCHANGED <<headless, slotObjects, mainCamera, m_CurrentFrameIndex, m_CurrentImageIndex,
                   m_FramebufferResized, syncVars, m_CommandBuffers, m_UniformBuffers,
                   m_Swapchain, images, dependentVars, queueVars, fbSize, width_height>>

\* --------------------------------------------------------------- BeginFrame
\* NullRenderer::BeginFrame
BeginFrameNull ==
    /\ headless
    /\ pc = "idle"
    /\ lastCall' = Call("BeginFrame", "none", "none", "none", "false")
    /\ UNCHANGED <<headless, slotObjects, mainCamera, pc, m_CurrentFrameIndex, m_CurrentImageIndex,
                   m_FramebufferResized, syncVars, m_CommandBuffers, m_UniformBuffers,
                   m_Swapchain, images, dependentVars, queueVars, fbSize, width_height>>

\* vkAcquireNextImageKHR reported out-of-date: enter RecreateSwapchain, whose
\* first statement queries the framebuffer size.
BeginFrameStale(res) ==
    /\ AcquireIsStale(res)
    /\ m_Swapchain.gen < MaxRecreate
    /\ pc' = "spin"
    /\ width_height' = fbSize
    /\ lastCall' = Call("BeginFrame", res, "none", "none", "pending")
    /\ UNCHANGED <<headless, slotObjects, mainCamera, m_CurrentFrameIndex, m_CurrentImageIndex, m_FramebufferResized,
                   syncVars, m_CommandBuffers, m_UniformBuffers, m_Swapchain, images,
                   dependentVars, queueVars, fbSize>>

\* any other failure of the acquisition throws
BeginFrameFatal(res) ==
    /\ ~AcquireIsStale(res)
    /\ AcquireIsFatal(res)
    /\ pc' = "thrown"
    /\ lastCall' = Call("BeginFrame", res, "none", "none", "throw")
    /\ UNCHANGED <<headless, slotObjects, mainCamera, m_CurrentFrameIndex, m_CurrentImageIndex, m_FramebufferResized,
                   syncVars, m_CommandBuffers, m_UniformBuffers, m_Swapchain, images,
                   dependentVars, queueVars, fbSize, width_height>>

\* success or suboptimal: image k is handed out, the fence is reset and the
\* slot's command buffer is reset and opened
BeginFrameAcquired(res, k) ==
    /\ ~AcquireIsStale(res)
    /\ ~AcquireIsFatal(res)
    /\ k \in DOMAIN images
    /\ images[k].st = "pe"
    /\ m_CurrentImageIndex' = k
    /\ images' = [images EXCEPT ![k] = [st |-> "acquiring", sem |-> m_CurrentFrameIndex]]
    /\ m_FramebufferResized' = IF res = VK_SUBOPTIMAL_KHR THEN TRUE ELSE m_FramebufferResized
    /\ m_InFlightFences' = [m_InFlightFences EXCEPT ![m_CurrentFrameIndex] = FALSE]
    /\ m_CommandBuffers' = [m_CommandBuffers EXCEPT ![m_CurrentFrameIndex] =
                               [state |-> "recording", framebuffer |-> NoFramebuffer]]
    /\ pc' = "record"
    /\ lastCall' = Call("BeginFrame", res, "none", "none", "true")
    /\ UNCHANGED <<headless, slotObjects, mainCamera, m_CurrentFrameIndex, m_ImageAvailableSemaphores,
                   m_RenderFinishedSemaphores, m_UniformBuffers, m_Swapchain, dependentVars,
                   queueVars, fbSize, width_height>>

BeginFrame ==
    /\ ~headless
    /\ pc = "idle"
    /\ WaitForFences(m_CurrentFrameIndex)
    /\ \E res \in VkResults :
          \/ BeginFrameStale(res)
          \/ BeginFrameFatal(res)
          \/ \E k \in 0 .. (MaxImages - 1) : BeginFrameAcquired(res, k)

\* -------------------------------------------------------- RecreateSwapchain
\* one iteration of `while (width == 0 || height == 0)`: query again, then
\* wait for events; leaving the loop leads to the device-idle wait
RecreateSpin ==
    /\ pc = "spin"
    /\ IF SizeIsZero(width_height)
          THEN /\ width_height' = fbSize
               /\ pc' = "spin"
          ELSE /\ pc' = "waitIdle"
               /\ UNCHANGED width_height
    /\ UNCHANGED <<headless, slotObjects, mainCamera, m_CurrentFrameIndex, m_CurrentImageIndex, m_FramebufferResized,
                   syncVars, m_CommandBuffers, m_UniformBuffers, m_Swapchain, images,
                   dependentVars, queueVars, fbSize, lastCall>>

\* CleanupSwapchainDependents
CleanupSwapchainDependents ==
    [depth |-> VK_NULL_HANDLE, renderPass |-> VK_NULL_HANDLE,
     pipeline |-> VK_NULL_HANDLE, framebuffers |-> <<>>]

CreateSwapchainDependents_KeepPass(sc, old) ==
    LET depth == CreateDepthResources(sc)
        rp == old
    IN [depth |-> depth, renderPass |-> rp, pipeline |-> CreateGraphicsPipeline(rp),
        framebuffers |-> CreateFramebuffers(sc, rp, depth)]

\* CreateSwapchainDependents: depth, render pass, pipeline, framebuffers
CreateSwapchainDependents(sc, old) ==
    LET depth == CreateDepthResources(sc)
        rp == CreateRenderPass(sc)
    IN [depth |-> depth, renderPass |-> rp, pipeline |-> CreateGraphicsPipeline(rp),
        framebuffers |-> CreateFramebuffers(sc, rp, depth)]

RecreateSwapchainKeeps_NewSyncObjects ==
    /\ slotObjects' = [slotObjects EXCEPT
                          !["m_InFlightFences"] = [i \in Slots |-> [gen |-> @[i].gen + 1]]]
    /\ UNCHANGED <<m_CurrentFrameIndex, syncVars, m_CommandBuffers, m_UniformBuffers>>

\* what RecreateSwapchain never assigns: the per-slot objects, their state
\* and the frame-slot index
RecreateSwapchainKeeps ==
    UNCHANGED <<slotObjects, m_CurrentFrameIndex, syncVars, m_CommandBuffers, m_UniformBuffers>>

\* the rest of RecreateSwapchain after the loop: device-idle wait, cleanup,
\* Swapchain::Recreate, rebuild, clear the flag; BeginFrame then returns false.
\* A failing vkCreateSwapchainKHR throws out of Swapchain::Recreate.
RecreateRebuild(createRes, fixed, count) ==
    /\ pc = "waitIdle"
    /\ WaitForDeviceIdle
    /\ LET cleaned == CleanupSwapchainDependents
       IN IF createRes # VK_SUCCESS
          THEN /\ m_Swapchain' = [gen |-> m_Swapchain.gen + 1, extent |-> m_Swapchain.extent,
                                  views |-> <<>>]
               /\ images' = FreshImages(0)
               /\ m_DepthImage' = cleaned.depth
               /\ m_RenderPass' = cleaned.renderPass
               /\ m_GraphicsPipeline' = cleaned.pipeline
               /\ m_SwapChainFramebuffers' = cleaned.framebuffers
               /\ pc' = "thrown"
               /\ lastCall' = [lastCall EXCEPT !.ret = "throw"]
               /\ UNCHANGED m_FramebufferResized
          ELSE LET sc == SwapchainInit(m_Swapchain.gen + 1,
                                       ChooseSwapExtent(fixed, width_height), count)
                   deps == CreateSwapchainDependents(sc, cleaned.renderPass)
               IN /\ m_Swapchain' = sc
                  /\ images' = FreshImages(count)
                  /\ m_DepthImage' = deps.depth
                  /\ m_RenderPass' = deps.renderPass
                  /\ m_GraphicsPipeline' = deps.pipeline
                  /\ m_SwapChainFramebuffers' = deps.framebuffers
                  /\ m_FramebufferResized' = FALSE
                  /\ pc' = "idle"
                  /\ lastCall' = [lastCall EXCEPT !.ret = "false"]
    /\ width_height' = <<0, 0>>
    /\ RecreateSwapchainKeeps
    /\ UNCHANGED <<headless, mainCamera, m_CurrentImageIndex, queueVars, fbSize>>


\* ----------------------------------------------------------- RecordCommands
\* m_SwapChainFramebuffers[m_CurrentImageIndex]; an index past the end of the
\* vector selects no framebuffer
FramebufferAt(idx) ==
    IF idx + 1 \in DOMAIN m_SwapChainFramebuffers
    THEN m_SwapChainFramebuffers[idx + 1]
    ELSE [kind |-> "out-of-range"]

\* Renderer::RecordCommands: begins the pass on the acquired image's
\* framebuffer and writes the slot's camera and light uniform buffers
RecordCommands(camera) ==
    /\ ~headless
    /\ pc = "record"
    /\ camera = mainCamera
    /\ m_CommandBuffers' = [m_CommandBuffers EXCEPT ![m_CurrentFrameIndex].framebuffer =
                               FramebufferAt(m_CurrentImageIndex)]
    /\ m_UniformBuffers' = [m_UniformBuffers EXCEPT ![m_CurrentFrameIndex] = camera]
    /\ pc' = "end"
    /\ lastCall' = Call("RecordCommands", "none", "none", "none", "void")
    /\ UNCHANGED <<headless, slotObjects, mainCamera, m_CurrentFrameIndex, m_CurrentImageIndex, m_FramebufferResized,
                   syncVars, m_Swapchain, images, dependentVars, queueVars, fbSize,
                   width_height>>

\* ------------------------------------------------------- EndFrameAndPresent
Submission(i) ==
    [slot |-> i, image |-> m_CurrentImageIndex, wait |-> WaitSemaphoreIndex(i),
     signal |-> SignalSemaphoreIndex(i), fence |-> i, running |-> FALSE]

PresentRequest(i, res) ==
    [image |-> m_CurrentImageIndex, wait |-> PresentWaitSemaphoreIndex(i),
     rejected |-> (res = VK_ERROR_OUT_OF_DATE_KHR)]

\* a failing vkQueueSubmit throws (VK_CHECK) after recording was closed
EndFrameSubmitFails(submitRes) ==
    /\ submitRes # VK_SUCCESS
    /\ m_CommandBuffers' = [m_CommandBuffers EXCEPT ![m_CurrentFrameIndex].state = "executable"]
    /\ pc' = "thrown"
    /\ lastCall' = Call("EndFrameAndPresent", "none", submitRes, "none", "throw")
    /\ UNCHANGED <<m_CurrentFrameIndex, m_FramebufferResized, queueVars>>

EndFrameSubmitted(presentRes) ==
    LET i == m_CurrentFrameIndex
    IN /\ m_CommandBuffers' = [m_CommandBuffers EXCEPT ![i].state = "pending"]
       /\ graphicsQueue' = Append(graphicsQueue, Submission(i))
       /\ presentQueue' = IF PresentEnqueued(presentRes)
                          THEN Append(presentQueue, PresentRequest(i, presentRes))
                          ELSE presentQueue
       /\ IF PresentMarksDirty(presentRes, m_FramebufferResized)
          THEN /\ m_FramebufferResized' = TRUE
               /\ m_CurrentFrameIndex' = NextFrameIndex(i)
               /\ pc' = "idle"
               /\ lastCall' = Call("EndFrameAndPresent", "none", VK_SUCCESS, presentRes, "void")
          ELSE IF PresentIsFatal(presentRes, m_FramebufferResized)
          THEN /\ pc' = "thrown"
               /\ lastCall' = Call("EndFrameAndPresent", "none", VK_SUCCESS, presentRes, "throw")
               /\ UNCHANGED <<m_FramebufferResized, m_CurrentFrameIndex>>
          ELSE /\ m_CurrentFrameIndex' = NextFrameIndex(i)
               /\ pc' = "idle"
               /\ lastCall' = Call("EndFrameAndPresent", "none", VK_SUCCESS, presentRes, "void")
               /\ UNCHANGED m_FramebufferResized

EndFrameAndPresent_SkipsRecord ==
    /\ ~headless
    /\ pc \in {"record", "end"}
    /\ \/ \E submitRes \in {VK_ERROR_OUT_OF_HOST_MEMORY} : EndFrameSubmitFails(submitRes)
       \/ \E presentRes \in VkResults : EndFrameSubmitted(presentRes)
    /\ UNCHANGED <<headless, slotObjects, mainCamera, m_CurrentImageIndex, syncVars, m_UniformBuffers, m_Swapchain,
                   images, dependentVars, fbSize, width_height>>

\* Renderer::EndFrameAndPresent, called by MainLoop after RecordCommands
EndFrameAndPresent ==
    /\ ~headless
    /\ pc = "end"
    /\ \/ \E submitRes \in {VK_ERROR_OUT_OF_HOST_MEMORY} : EndFrameSubmitFails(submitRes)
       \/ \E presentRes \in VkResults : EndFrameSubmitted(presentRes)
    /\ UNCHANGED <<headless, slotObjects, mainCamera, m_CurrentImageIndex, syncVars, m_UniformBuffers, m_Swapchain,
                   images, dependentVars, fbSize, width_height>>

\* --------------------------------------------------------------- the device
\* the presentation engine releases an acquired image: the semaphore given
\* to vkAcquireNextImageKHR is signaled
ImageAvailable(k) ==
    /\ k \in DOMAIN images
    /\ images[k].st = "acquiring"
    /\ images' = [images EXCEPT ![k] = [st |-> "acquired", sem |-> 0]]
    /\ m_ImageAvailableSemaphores' = [m_ImageAvailableSemaphores EXCEPT ![images[k].sem] = TRUE]
    /\ UNCHANGED <<headless, slotObjects, mainCamera, pc, m_CurrentFrameIndex, m_CurrentImageIndex,
                   m_FramebufferResized, m_InFlightFences, m_RenderFinishedSemaphores,
                   m_CommandBuffers, m_UniformBuffers, m_Swapchain, dependentVars, queueVars,
                   fbSize, width_height, lastCall>>

\* the head submission starts executing once its wait semaphore is signaled
GpuStart ==
    /\ graphicsQueue # <<>>
    /\ LET job == Head(graphicsQueue)
       IN /\ ~job.running
          /\ m_ImageAvailableSemaphores[job.wait]
          /\ m_ImageAvailableSemaphores' = [m_ImageAvailableSemaphores EXCEPT ![job.wait] = FALSE]
          /\ graphicsQueue' = <<[job EXCEPT !.running = TRUE]>> \o Tail(graphicsQueue)
          /\ images' = IF job.image \in DOMAIN images
                       THEN [images EXCEPT ![job.image].st = "rendering"]
                       ELSE images
    /\ UNCHANGED <<headless, slotObjects, mainCamera, pc, m_CurrentFrameIndex, m_CurrentImageIndex,
                   m_FramebufferResized, m_InFlightFences, m_RenderFinishedSemaphores,
                   m_CommandBuffers, m_UniformBuffers, m_Swapchain, dependentVars,
                   presentQueue, fbSize, width_height, lastCall>>

\* the head submission finishes: its signal semaphore and fence are signaled
GpuFinish ==
    /\ graphicsQueue # <<>>
    /\ LET job == Head(graphicsQueue)
       IN /\ job.running
          /\ graphicsQueue' = Tail(graphicsQueue)
          /\ m_RenderFinishedSemaphores' = [m_RenderFinishedSemaphores EXCEPT ![job.signal] = TRUE]
          /\ m_InFlightFences' = [m_InFlightFences EXCEPT ![job.fence] = TRUE]
          /\ m_CommandBuffers' = IF m_CommandBuffers[job.slot].state = "pending"
                                 THEN [m_CommandBuffers EXCEPT ![job.slot] =
                                          [state |-> "invalid", framebuffer |-> NoFramebuffer]]
                                 ELSE m_CommandBuffers
          /\ images' = IF job.image \in DOMAIN images /\ images[job.image].st = "rendering"
                       THEN [images EXCEPT ![job.image].st = "rendered"]
                       ELSE images
    /\ UNCHANGED <<headless, slotObjects, mainCamera, pc, m_CurrentFrameIndex, m_CurrentImageIndex,
                   m_FramebufferResized, m_ImageAvailableSemaphores, m_UniformBuffers,
                   m_Swapchain, dependentVars, presentQueue, fbSize, width_height, lastCall>>

\* the head presentation request executes once its wait semaphore is
\* signaled; unless rejected, the image goes back to the presentation engine
PresentExecute ==
    /\ presentQueue # <<>>
    /\ LET req == Head(presentQueue)
       IN /\ m_RenderFinishedSemaphores[req.wait]
          /\ m_RenderFinishedSemaphores' = [m_RenderFinishedSemaphores EXCEPT ![req.wait] = FALSE]
          /\ presentQueue' = Tail(presentQueue)
          /\ images' = IF req.image \in DOMAIN images /\ ~req.rejected
                       THEN [images EXCEPT ![req.image].st = "pe"]
                       ELSE images
    /\ UNCHANGED <<headless, slotObjects, mainCamera, pc, m_CurrentFrameIndex, m_CurrentImageIndex,
                   m_FramebufferResized, m_InFlightFences, m_ImageAvailableSemaphores,
                   m_CommandBuffers, m_UniformBuffers, m_Swapchain, dependentVars,
                   graphicsQueue, fbSize, width_height, lastCall>>

\* ------------------------------------------------------------ specification
Next ==
    \/ (\E sz \in Sizes : WindowResize(sz)) /\ UNCHANGED <<recordVars, bufferVars, utilVars, swapVars, cmdVars, samplerVars, assetVars, physicsVars, inputVars, sceneVars>>
    \/ BeginFrameNull /\ UNCHANGED <<recordVars, bufferVars, utilVars, swapVars, cmdVars, samplerVars, assetVars, physicsVars, inputVars, sceneVars>>
    \/ BeginFrame /\ UNCHANGED <<recordVars, bufferVars, utilVars, swapVars, cmdVars, samplerVars, assetVars, physicsVars, inputVars, sceneVars>>
    \/ RecreateSpin /\ UNCHANGED <<recordVars, bufferVars, utilVars, swapVars, cmdVars, samplerVars, assetVars, physicsVars, inputVars, sceneVars>>
    \/ (\E createRes \in {VK_SUCCESS, VK_ERROR_OUT_OF_HOST_MEMORY}, fixed \in Extents \cup {<<0, 0>>},
           count \in ImageCounts : RecreateRebuild(createRes, fixed, count))
       /\ UNCHANGED <<recordVars, bufferVars, utilVars, swapVars, cmdVars, samplerVars, assetVars, physicsVars, inputVars, sceneVars>>
    \/ (\E camera \in Cameras : RecordCommands(camera)) /\ UNCHANGED <<recordVars, bufferVars, utilVars, swapVars, cmdVars, samplerVars, assetVars, physicsVars, inputVars, sceneVars>>
    \/ EndFrameAndPresent /\ UNCHANGED <<recordVars, bufferVars, utilVars, swapVars, cmdVars, samplerVars, assetVars, physicsVars, inputVars, sceneVars>>
    \/ (\E k \in 0 .. (MaxImages - 1) : ImageAvailable(k)) /\ UNCHANGED <<recordVars, bufferVars, utilVars, swapVars, cmdVars, samplerVars, assetVars, physicsVars, inputVars, sceneVars>>
    \/ GpuStart /\ UNCHANGED <<recordVars, bufferVars, utilVars, swapVars, cmdVars, samplerVars, assetVars, physicsVars, inputVars, sceneVars>>
    \/ GpuFinish /\ UNCHANGED <<recordVars, bufferVars, utilVars, swapVars, cmdVars, samplerVars, assetVars, physicsVars, inputVars, sceneVars>>
    \/ PresentExecute /\ UNCHANGED <<recordVars, bufferVars, utilVars, swapVars, cmdVars, samplerVars, assetVars, physicsVars, inputVars, sceneVars>>

Spec == Init /\ [][Next]_vars

\* ------------------------------------- BeginFrame on a pool-less manager
\* Renderer::BeginFrame delegating to a CommandManager whose m_CommandPool is
\* VK_NULL_HANDLE: BeginFrameRecording returns VK_NULL_HANDLE before it
\* touches a buffer, and BeginFrame, which has acquired image k and reset the
\* slot's fence by then, returns false.
BeginFrameOpenFails(res, k) ==
    /\ ~AcquireIsStale(res)
    /\ ~AcquireIsFatal(res)
    /\ k \in DOMAIN images
    /\ images[k].st = "pe"
    /\ m_CurrentImageIndex' = k
    /\ images' = [images EXCEPT ![k] = [st |-> "acquiring", sem |-> m_CurrentFrameIndex]]
    /\ m_FramebufferResized' = IF res = VK_SUBOPTIMAL_KHR THEN TRUE ELSE m_FramebufferResized
    /\ m_InFlightFences' = [m_InFlightFences EXCEPT ![m_CurrentFrameIndex] = FALSE]
    /\ pc' = "idle"
    /\ lastCall' = Call("BeginFrame", res, "none", "none", "false")
    /\ UNCHANGED <<headless, slotObjects, mainCamera, m_CurrentFrameIndex, m_ImageAvailableSemaphores,
                   m_RenderFinishedSemaphores, m_CommandBuffers, m_UniformBuffers, m_Swapchain,
                   dependentVars, queueVars, fbSize, width_height>>

BeginFrameNoPool ==
    /\ ~headless
    /\ pc = "idle"
    /\ WaitForFences(m_CurrentFrameIndex)
    /\ \E res \in VkResults :
          \/ BeginFrameStale(res)
          \/ BeginFrameFatal(res)
          \/ \E k \in 0 .. (MaxImages - 1) : BeginFrameOpenFails(res, k)

InitNoPool == Init /\ ~headless

NextNoPool ==
    \/ (\E sz \in Sizes : WindowResize(sz)) /\ UNCHANGED <<recordVars, bufferVars, utilVars, swapVars, cmdVars, samplerVars, assetVars, physicsVars, inputVars, sceneVars>>
    \/ BeginFrameNoPool /\ UNCHANGED <<recordVars, bufferVars, utilVars, swapVars, cmdVars, samplerVars, assetVars, physicsVars, inputVars, sceneVars>>
    \/ RecreateSpin /\ UNCHANGED <<recordVars, bufferVars, utilVars, swapVars, cmdVars, samplerVars, assetVars, physicsVars, inputVars, sceneVars>>
    \/ (\E createRes \in {VK_SUCCESS, VK_ERROR_OUT_OF_HOST_MEMORY}, fixed \in Extents \cup {<<0, 0>>},
           count \in ImageCounts : RecreateRebuild(createRes, fixed, count))
       /\ UNCHANGED <<recordVars, bufferVars, utilVars, swapVars, cmdVars, samplerVars, assetVars, physicsVars, inputVars, sceneVars>>
    \/ (\E k \in 0 .. (MaxImages - 1) : ImageAvailable(k)) /\ UNCHANGED <<recordVars, bufferVars, utilVars, swapVars, cmdVars, samplerVars, assetVars, physicsVars, inputVars, sceneVars>>

SpecNoPool == InitNoPool /\ [][NextNoPool]_vars

\* ------------------------------------------ more images than frame slots
\* The frame loop on a swapchain of ManyImages images (one more than
\* MAX_FRAMES_IN_FLIGHT), without resizes and with every acquisition
\* succeeding.
BeginFrameMany ==
    /\ ~headless
    /\ pc = "idle"
    /\ WaitForFences(m_CurrentFrameIndex)
    /\ \E k \in 0 .. (ManyImages - 1) : BeginFrameAcquired(VK_SUCCESS, k)

InitMany ==
    /\ pc = "idle"
    /\ mainCamera = "camera"
    /\ m_CurrentFrameIndex = 0
    /\ m_CurrentImageIndex = 0
    /\ m_FramebufferResized = FALSE
    /\ m_InFlightFences = [i \in Slots |-> TRUE]
    /\ m_ImageAvailableSemaphores = [i \in Slots |-> FALSE]
    /\ m_RenderFinishedSemaphores = [i \in Slots |-> FALSE]
    /\ m_CommandBuffers = [i \in Slots |-> [state |-> "initial", framebuffer |-> NoFramebuffer]]
    /\ m_UniformBuffers = [i \in Slots |-> "none"]
    /\ graphicsQueue = <<>>
    /\ presentQueue = <<>>
    /\ width_height = <<0, 0>>
    /\ lastCall = NoCall
    /\ headless = FALSE
    /\ slotObjects = InitVulkanSlotObjects
    /\ fbSize = <<MinExtent, MinExtent>>
    /\ m_Swapchain = SwapchainInit(0, fbSize, ManyImages)
    /\ images = FreshImages(ManyImages)
    /\ m_DepthImage = CreateDepthResources(m_Swapchain)
    /\ m_RenderPass = CreateRenderPass(m_Swapchain)
    /\ m_GraphicsPipeline = CreateGraphicsPipeline(m_RenderPass)
    /\ m_SwapChainFramebuffers = CreateFramebuffers(m_Swapchain, m_RenderPass, m_DepthImage)
    /\ RecordAtRest
    /\ BufferAtRest
    /\ UtilsAtRest
    /\ SwapchainAtRest
    /\ CommandsAtRest
    /\ SamplersAtRest
    /\ AssetsAtRest
    /\ PhysicsAtRest
    /\ InputAtRest
    /\ SceneAtRest

NextMany ==
    \/ BeginFrameMany /\ UNCHANGED <<recordVars, bufferVars, utilVars, swapVars, cmdVars, samplerVars, assetVars, physicsVars, inputVars, sceneVars>>
    \/ RecordCommands(mainCamera) /\ UNCHANGED <<recordVars, bufferVars, utilVars, swapVars, cmdVars, samplerVars, assetVars, physicsVars, inputVars, sceneVars>>
    \/ EndFrameAndPresent /\ UNCHANGED <<recordVars, bufferVars, utilVars, swapVars, cmdVars, samplerVars, assetVars, physicsVars, inputVars, sceneVars>>
    \/ (\E k \in 0 .. (ManyImages - 1) : ImageAvailable(k)) /\ UNCHANGED <<recordVars, bufferVars, utilVars, swapVars, cmdVars, samplerVars, assetVars, physicsVars, inputVars, sceneVars>>
    \/ GpuStart /\ UNCHANGED <<recordVars, bufferVars, utilVars, swapVars, cmdVars, samplerVars, assetVars, physicsVars, inputVars, sceneVars>>
    \/ GpuFinish /\ UNCHANGED <<recordVars, bufferVars, utilVars, swapVars, cmdVars, samplerVars, assetVars, physicsVars, inputVars, sceneVars>>
    \/ PresentExecute /\ UNCHANGED <<recordVars, bufferVars, utilVars, swapVars, cmdVars, samplerVars, assetVars, physicsVars, inputVars, sceneVars>>

SpecMany == InitMany /\ [][NextMany]_vars

\* =================================================== RecordCommands detail
\* Material.h: InvalidMaterialHandle is static_cast<MaterialHandle>(-1)
InvalidMaterialHandle == -1

\* AssetManager::CreateDefaultAssets pushes the default material first
m_DefaultMaterial == 0

\* Material::descriptorSet is a handle (TRUE) or VK_NULL_HANDLE (FALSE)
MaterialTables == [1 .. 2 -> [descriptorSet : BOOLEAN]]

\* RenderObjectInfo {mesh, transform} with the mesh's buffers and material; a
\* null mesh has no buffers to ask for
Renderable(mesh, transform, vb, ib, material) ==
    [mesh |-> mesh, transform |-> transform, vertexBuffer |-> vb, indexBuffer |-> ib,
     material |-> material]

RenderableInputs ==
    {Renderable(TRUE, TRUE, TRUE, TRUE, h) : h \in {0, 1, InvalidMaterialHandle}}
    \cup {Renderable(FALSE, TRUE, FALSE, FALSE, 0), Renderable(TRUE, FALSE, TRUE, TRUE, 0),
          Renderable(TRUE, TRUE, FALSE, TRUE, 0), Renderable(TRUE, TRUE, TRUE, FALSE, 0)}

RenderableLists == UNION {[1 .. n -> RenderableInputs] : n \in 0 .. MaxRenderables}

UIStates == {"uninitialized", "empty", "drawdata"}

Cmd(c, n) == [cmd |-> c, arg |-> n]

\* AssetManager::GetMaterial: an invalid or out-of-range handle is answered
\* with the default material, after a warning
GetMaterialWarns(table, handle) == handle = InvalidMaterialHandle \/ handle >= Len(table)

GetMaterial(table, handle) ==
    IF GetMaterialWarns(table, handle) THEN table[m_DefaultMaterial + 1] ELSE table[handle + 1]

\* the `continue` test at the top of the loop body
HandlesComplete(r) == r.mesh /\ r.transform /\ r.vertexBuffer /\ r.indexBuffer

\* the renderables RecordCommands passes over without recording anything
DrawIsSkipped(table, r) == ~HandlesComplete(r)

\* the commands one loop iteration records for renderable n
DrawCommands(table, r, n) ==
    IF DrawIsSkipped(table, r) THEN <<>>
    ELSE <<Cmd("vkCmdPushConstants", n)>>
         \o (IF GetMaterial(table, r.material).descriptorSet
             THEN <<Cmd("vkCmdBindDescriptorSets", 1)>> ELSE <<>>)
         \o <<Cmd("vkCmdBindVertexBuffers", n), Cmd("vkCmdBindIndexBuffer", n),
              Cmd("vkCmdDrawIndexed", n)>>

WarnOnce_EveryTime(flag) == TRUE

\* VKENG_WARN_ONCE: the message goes out while the site's static flag is clear
WarnOnce(flag) == ~flag

\* the warnings one loop iteration logs, given the site's static flag
DrawWarnings(table, r, flag) ==
    IF DrawIsSkipped(table, r) THEN <<>>
    ELSE (IF GetMaterialWarns(table, r.material) THEN <<"invalid-material-handle">> ELSE <<>>)
         \o (IF ~GetMaterial(table, r.material).descriptorSet /\ WarnOnce(flag)
             THEN <<"null-descriptor-set">> ELSE <<>>)

FlagAfter(table, r, flag) ==
    flag \/ (~DrawIsSkipped(table, r) /\ ~GetMaterial(table, r.material).descriptorSet)

\* the loop `for (const auto& renderInfo : renderables)` from entry n on
RECURSIVE DrawSceneObjects(_, _, _, _)
DrawSceneObjects(table, list, n, flag) ==
    IF n > Len(list) THEN [commands |-> <<>>, log |-> <<>>, flag |-> flag]
    ELSE LET rest == DrawSceneObjects(table, list, n + 1, FlagAfter(table, list[n], flag))
         IN [commands |-> DrawCommands(table, list[n], n) \o rest.commands,
             log |-> DrawWarnings(table, list[n], flag) \o rest.log,
             flag |-> rest.flag]

\* UIManager::RenderDrawData: records only when initialized and holding draw lists
RenderDrawData(ui) ==
    IF ui = "drawdata" THEN <<Cmd("ImGui_ImplVulkan_RenderDrawData", 0)>> ELSE <<>>

RecordedPass_UIAfterEnd(draws, ui) ==
    <<Cmd("vkCmdBeginRenderPass", 0), Cmd("vkCmdBindPipeline", 0), Cmd("vkCmdSetViewport", 0),
      Cmd("vkCmdSetScissor", 0), Cmd("vkCmdBindDescriptorSets", 0)>>
    \o draws \o <<Cmd("vkCmdEndRenderPass", 0)>> \o RenderDrawData(ui)

\* the command stream of RecordCommands around the scene objects
RecordedPass(draws, ui) ==
    <<Cmd("vkCmdBeginRenderPass", 0), Cmd("vkCmdBindPipeline", 0), Cmd("vkCmdSetViewport", 0),
      Cmd("vkCmdSetScissor", 0), Cmd("vkCmdBindDescriptorSets", 0)>>
    \o draws \o RenderDrawData(ui) \o <<Cmd("vkCmdEndRenderPass", 0)>>

InitRecord ==
    /\ FrameAtRest
    /\ BufferAtRest
    /\ UtilsAtRest
    /\ SwapchainAtRest
    /\ CommandsAtRest
    /\ SamplersAtRest
    /\ AssetsAtRest
    /\ PhysicsAtRest
    /\ InputAtRest
    /\ SceneAtRest
    /\ m_LoadedMaterials \in MaterialTables
    /\ renderables = <<>>
    /\ uiDrawData = "uninitialized"
    /\ commandBuffer = <<>>
    /\ warnedOnce = FALSE
    /\ log = <<>>
    /\ recPc = "record"

\* Renderer::RecordCommands on the command buffer BeginFrame opened
RecordDrawList(list, ui) ==
    /\ recPc = "record"
    /\ LET scene == DrawSceneObjects(m_LoadedMaterials, list, 1, warnedOnce)
       IN /\ commandBuffer' = commandBuffer \o RecordedPass(scene.commands, ui)
          /\ log' = scene.log
          /\ warnedOnce' = scene.flag
    /\ renderables' = list
    /\ uiDrawData' = ui
    /\ recPc' = "end"
    /\ UNCHANGED <<m_LoadedMaterials, frameVars, bufferVars, utilVars, swapVars, cmdVars, samplerVars, assetVars, physicsVars, inputVars, sceneVars>>

\* the rest of the MainLoop iteration and the next BeginFrame:
\* CommandManager::BeginFrameRecording resets the slot's command buffer; the
\* scene rebuilds its renderable list and the UI its draw data every frame
NextFrameRecording ==
    /\ recPc = "end"
    /\ commandBuffer' = <<>>
    /\ recPc' = "record"
    /\ renderables' = <<>>
    /\ uiDrawData' = "uninitialized"
    /\ log' = <<>>
    /\ UNCHANGED <<m_LoadedMaterials, warnedOnce, frameVars, bufferVars, utilVars, swapVars, cmdVars, samplerVars, assetVars, physicsVars, inputVars, sceneVars>>

NextRecord ==
    \/ \E list \in RenderableLists, ui \in UIStates : RecordDrawList(list, ui)
    \/ NextFrameRecording

SpecRecord == InitRecord /\ [][NextRecord]_vars

\* ============================================================ VulkanBuffer
\* Buffer.h: the default of the size arguments, ~0ULL in vulkan_core.h
VK_WHOLE_SIZE == -1

VK_ERROR_MEMORY_MAP_FAILED == "VK_ERROR_MEMORY_MAP_FAILED"
HOST_VISIBLE == "VK_MEMORY_PROPERTY_HOST_VISIBLE_BIT"
HOST_COHERENT == "VK_MEMORY_PROPERTY_HOST_COHERENT_BIT"

\* the byte value a caller writes; memory starts zeroed
DataBytes == {1}

NullPtr == [mapped |-> FALSE, base |-> 0, len |-> 0]

\* x & y on unsigned integers
RECURSIVE BitAnd(_, _)
BitAnd(x, y) ==
    IF x = 0 \/ y = 0 THEN 0
    ELSE (x % 2) * (y % 2) + 2 * BitAnd(x \div 2, y \div 2)

\* VulkanBuffer::CalculateAlignment: (size + alignment - 1) & ~(alignment - 1);
\* x & ~m is x minus the bits x shares with m
CalculateAlignment(instanceSize, minOffsetAlignment) ==
    IF minOffsetAlignment > 0
    THEN (instanceSize + minOffsetAlignment - 1)
            - BitAnd(instanceSize + minOffsetAlignment - 1, minOffsetAlignment - 1)
    ELSE instanceSize

\* VulkanBuffer::VulkanBuffer: the members after construction; a zero size or
\* count leaves an object without buffer and memory.  minOffsetAlignment is
\* the constructor argument, kept for reference.
VulkanBuffer(instanceSize, instanceCount, memoryPropertyFlags, minOffsetAlignment) ==
    LET valid == instanceCount # 0 /\ instanceSize # 0
        aligned == IF valid THEN CalculateAlignment(instanceSize, minOffsetAlignment) ELSE 0
    IN [m_Buffer |-> valid,
        m_MappedMemory |-> NullPtr,
        m_BufferSize |-> aligned * instanceCount,
        m_InstanceCount |-> instanceCount,
        m_InstanceSize |-> instanceSize,
        m_AlignmentSize |-> aligned,
        m_MemoryPropertyFlags |-> memoryPropertyFlags,
        minOffsetAlignment |-> minOffsetAlignment]

\* vkMapMemory(offset, size): the host range handed out; a range reaching past
\* the allocation is cut at its end
MappedRange(b, size, offset) ==
    [mapped |-> TRUE, base |-> offset,
     len |-> IF size = VK_WHOLE_SIZE \/ offset + size > b.m_BufferSize
             THEN b.m_BufferSize - offset ELSE size]

Map_Remaps(b, size, offset, vkRes) ==
    IF ~b.m_Buffer THEN [ret |-> "VK_ERROR_INITIALIZATION_FAILED", buffer |-> b]
    ELSE IF HOST_VISIBLE \notin b.m_MemoryPropertyFlags
    THEN [ret |-> VK_ERROR_MEMORY_MAP_FAILED, buffer |-> b]
    ELSE [ret |-> vkRes,
          buffer |-> IF vkRes = VK_SUCCESS
                     THEN [b EXCEPT !.m_MappedMemory = MappedRange(b, size, offset)] ELSE b]

\* VulkanBuffer::Map; vkRes is the result of vkMapMemory
Map(b, size, offset, vkRes) ==
    IF ~b.m_Buffer THEN [ret |-> "VK_ERROR_INITIALIZATION_FAILED", buffer |-> b]
    ELSE IF HOST_VISIBLE \notin b.m_MemoryPropertyFlags
    THEN [ret |-> VK_ERROR_MEMORY_MAP_FAILED, buffer |-> b]
    ELSE IF b.m_MappedMemory.mapped THEN [ret |-> VK_SUCCESS, buffer |-> b]
    ELSE [ret |-> vkRes,
          buffer |-> IF vkRes = VK_SUCCESS
                     THEN [b EXCEPT !.m_MappedMemory = MappedRange(b, size, offset)] ELSE b]

\* VulkanBuffer::Unmap
Unmap(b) == IF b.m_MappedMemory.mapped THEN [b EXCEPT !.m_MappedMemory = NullPtr] ELSE b

\* VkDeviceSize is an unsigned integer (64 bits in vulkan_core.h); the model
\* computes its differences modulo 2^VkDeviceSizeBits, far above every size
\* and offset drawn here
VkDeviceSizeBits == 16

\* the number of bytes WriteToBuffer copies; "m_BufferSize - offset" is an
\* unsigned difference
CopyLength(b, size, offset) ==
    IF size = VK_WHOLE_SIZE
    THEN (IF offset > 0 THEN (b.m_BufferSize - offset) % (2 ^ VkDeviceSizeBits)
                        ELSE b.m_BufferSize)
    ELSE size

\* the byte of the allocation the copy starts at: the mapped pointer plus
\* offset, except for the whole-buffer copy from offset 0
CopyTarget(b, size, offset) ==
    IF size = VK_WHOLE_SIZE /\ offset = 0 THEN b.m_MappedMemory.base
    ELSE b.m_MappedMemory.base + offset

\* memcpy of n bytes of value v to byte `target` of the allocation; bytes past
\* its end do not land in it
Memcpy(mem, target, n, v) ==
    [i \in DOMAIN mem |-> IF target < i /\ i <= target + n THEN v ELSE mem[i]]

\* the copy stays inside the range vkMapMemory handed out
CopyInMappedRange(b, target, n) ==
    /\ b.m_MappedMemory.base <= target
    /\ target + n <= b.m_MappedMemory.base + b.m_MappedMemory.len

\* VulkanBuffer::Flush issues vkFlushMappedMemoryRanges only for host-visible,
\* non-coherent memory
FlushIssued(b) ==
    HOST_VISIBLE \in b.m_MemoryPropertyFlags /\ HOST_COHERENT \notin b.m_MemoryPropertyFlags

WriteOutcome(b, mem, ret, flushed) == [buffer |-> b, memory |-> mem, ret |-> ret, flushed |-> flushed]

WriteToBuffer_KeepsMapping(b, mem, v, size, offset, vkRes, ub) ==
    IF ~b.m_Buffer THEN WriteOutcome(b, mem, "void", FALSE)
    ELSE IF HOST_VISIBLE \notin b.m_MemoryPropertyFlags THEN WriteOutcome(b, mem, "throw", FALSE)
    ELSE LET needsTempMap == ~b.m_MappedMemory.mapped
             mapped == IF needsTempMap
                       THEN Map(b, IF size = VK_WHOLE_SIZE THEN b.m_BufferSize ELSE size,
                                offset, vkRes)
                       ELSE [ret |-> VK_SUCCESS, buffer |-> b]
             mb == mapped.buffer
             n == CopyLength(mb, size, offset)
             target == CopyTarget(mb, size, offset)
         IN IF mapped.ret # VK_SUCCESS THEN WriteOutcome(b, mem, "map-failed", FALSE)
            ELSE IF ~CopyInMappedRange(mb, target, n) /\ ub = "crash"
            THEN WriteOutcome(b, mem, "crash", FALSE)
            ELSE WriteOutcome(mb, Memcpy(mem, target, n, v), "void",
                              HOST_COHERENT \notin mb.m_MemoryPropertyFlags /\ FlushIssued(mb))

\* VulkanBuffer::WriteToBuffer with n bytes of value v as data.  vkRes is the
\* result of the vkMapMemory of a temporary mapping; ub picks what a copy
\* outside the mapped range does: it lands where the pointer says, or the
\* process dies there (the object is then left as it was found).
WriteToBuffer(b, mem, v, size, offset, vkRes, ub) ==
    IF ~b.m_Buffer THEN WriteOutcome(b, mem, "void", FALSE)
    ELSE IF HOST_VISIBLE \notin b.m_MemoryPropertyFlags THEN WriteOutcome(b, mem, "throw", FALSE)
    ELSE LET needsTempMap == ~b.m_MappedMemory.mapped
             mapped == IF needsTempMap
                       THEN Map(b, IF size = VK_WHOLE_SIZE THEN b.m_BufferSize ELSE size,
                                offset, vkRes)
                       ELSE [ret |-> VK_SUCCESS, buffer |-> b]
             mb == mapped.buffer
             n == CopyLength(mb, size, offset)
             target == CopyTarget(mb, size, offset)
         IN IF mapped.ret # VK_SUCCESS THEN WriteOutcome(b, mem, "map-failed", FALSE)
            ELSE IF ~CopyInMappedRange(mb, target, n) /\ ub = "crash"
            THEN WriteOutcome(b, mem, "crash", FALSE)
            ELSE WriteOutcome(IF needsTempMap THEN Unmap(mb) ELSE mb,
                              Memcpy(mem, target, n, v), "void",
                              HOST_COHERENT \notin mb.m_MemoryPropertyFlags /\ FlushIssued(mb))

\* wasMapped: whether the buffer was mapped when the call was made
BufCall(op, ret, flushed) ==
    [op |-> op, ret |-> ret, flushed |-> flushed, wasMapped |-> buffer.m_MappedMemory.mapped]

\* the arguments a caller may pass for a range of the buffer; an object
\* without buffer is called with the defaults
ValidRange(b, size, offset) ==
    IF ~b.m_Buffer THEN size = VK_WHOLE_SIZE /\ offset = 0
    ELSE /\ offset \in 0 .. (b.m_BufferSize - 1)
         /\ size = VK_WHOLE_SIZE \/ (size >= 1 /\ offset + size <= b.m_BufferSize)

InitBuffer ==
    /\ FrameAtRest
    /\ RecordAtRest
    /\ UtilsAtRest
    /\ SwapchainAtRest
    /\ CommandsAtRest
    /\ SamplersAtRest
    /\ AssetsAtRest
    /\ PhysicsAtRest
    /\ InputAtRest
    /\ SceneAtRest
    /\ \E instanceSize \in 0 .. MaxInstanceSize, instanceCount \in 0 .. MaxInstanceCount,
          flags \in {{}, {HOST_VISIBLE}, {HOST_VISIBLE, HOST_COHERENT}}, minOffsetAlignment \in 0 .. MaxAlignment :
          buffer = VulkanBuffer(instanceSize, instanceCount, flags, minOffsetAlignment)
    /\ memory = [i \in 1 .. buffer.m_BufferSize |-> 0]
    /\ bufCall = [op |-> "VulkanBuffer", ret |-> "void", flushed |-> FALSE, wasMapped |-> FALSE]

MapCall(size, offset, vkRes) ==
    /\ bufCall.ret # "crash"
    /\ ValidRange(buffer, size, offset)
    /\ LET r == Map(buffer, size, offset, vkRes)
       IN /\ buffer' = r.buffer
          /\ bufCall' = BufCall("Map", r.ret, FALSE)
    /\ UNCHANGED <<memory, frameVars, recordVars, utilVars, swapVars, cmdVars, samplerVars, assetVars, physicsVars, inputVars, sceneVars>>

UnmapCall ==
    /\ bufCall.ret # "crash"
    /\ buffer' = Unmap(buffer)
    /\ bufCall' = BufCall("Unmap", "void", FALSE)
    /\ UNCHANGED <<memory, frameVars, recordVars, utilVars, swapVars, cmdVars, samplerVars, assetVars, physicsVars, inputVars, sceneVars>>

WriteToBufferCall(v, size, offset, vkRes, ub) ==
    /\ bufCall.ret # "crash"
    /\ ValidRange(buffer, size, offset)
    /\ LET r == WriteToBuffer(buffer, memory, v, size, offset, vkRes, ub)
       IN /\ buffer' = r.buffer
          /\ memory' = r.memory
          /\ bufCall' = BufCall("WriteToBuffer", r.ret, r.flushed)
    /\ UNCHANGED <<frameVars, recordVars, utilVars, swapVars, cmdVars, samplerVars, assetVars, physicsVars, inputVars, sceneVars>>

\* sizes and offsets up to the largest buffer of InitBuffer
BufferSizes == {VK_WHOLE_SIZE} \cup (0 .. (MaxInstanceSize + MaxAlignment) * MaxInstanceCount)

NextBuffer ==
    \/ \E size \in BufferSizes, offset \in BufferSizes \ {VK_WHOLE_SIZE},
          vkRes \in {VK_SUCCESS, VK_ERROR_MEMORY_MAP_FAILED} : MapCall(size, offset, vkRes)
    \/ UnmapCall
    \/ \E v \in DataBytes, size \in BufferSizes, offset \in BufferSizes \ {VK_WHOLE_SIZE},
          vkRes \in {VK_SUCCESS, VK_ERROR_MEMORY_MAP_FAILED}, ub \in {"lands", "crash"} :
          WriteToBufferCall(v, size, offset, vkRes, ub)

SpecBuffer == InitBuffer /\ [][NextBuffer]_vars

\* ------------------------------------------------------------ Utils (one-shot)
\* Utils::TransitionImageLayout and Utils::GenerateMipmaps each record into a
\* single-use command buffer and submit it.  oneShot is that command buffer
\* and the fence EndSingleTimeCommands guards its submission with:
\*   "none"       not allocated
\*   "recording"  allocated and begun, not ended (still so when the call has
\*                thrown: never freed)
\*   "pending"    ended and submitted, the device has not finished it
\*   "complete"   the device has finished it and signaled the fence
\*   "freed"      freed, after the wait for the fence returned
\* fence: "none", "unsignaled", "signaled", "destroyed".
\* A call that has submitted is blocked in vkWaitForFences (ret "blocked")
\* until the device signals the fence.

ImageLayouts ==
    { "UNDEFINED", "GENERAL", "COLOR_ATTACHMENT_OPTIMAL",
      "DEPTH_STENCIL_ATTACHMENT_OPTIMAL", "SHADER_READ_ONLY_OPTIMAL",
      "TRANSFER_SRC_OPTIMAL", "TRANSFER_DST_OPTIMAL" }

\* vkCmdPipelineBarrier with one image memory barrier
Barrier(oldLayout, newLayout, baseMipLevel, levelCount) ==
    [ cmd          |-> "vkCmdPipelineBarrier",
      oldLayout    |-> oldLayout,
      newLayout    |-> newLayout,
      baseMipLevel |-> baseMipLevel,
      levelCount   |-> levelCount ]

\* vkCmdBlitImage of one region: srcOffsets[1] of srcLevel to dstOffsets[1] of dstLevel
Blit(srcLevel, srcW, srcH, dstLevel, dstW, dstH) ==
    [ cmd      |-> "vkCmdBlitImage",
      srcLevel |-> srcLevel,
      src      |-> <<srcW, srcH>>,
      dstLevel |-> dstLevel,
      dst      |-> <<dstW, dstH>> ]

\* deviceOk: neither the device nor the command pool is VK_NULL_HANDLE
BeginSingleTimeCommands(deviceOk) ==
    IF ~deviceOk
    THEN [ret |-> "runtime_error", cb |-> [state |-> "none", commands |-> <<>>, fence |-> "none"]]
    ELSE [ret |-> "ok", cb |-> [state |-> "recording", commands |-> <<>>, fence |-> "none"]]

\* up to vkQueueSubmit: vkEndCommandBuffer, vkCreateFence (unsignaled), submit;
\* reached only with the handles BeginSingleTimeCommands accepted
EndSingleTimeCommands(cb) ==
    [state |-> "pending", commands |-> cb.commands, fence |-> "unsignaled"]

FenceWaitOver_NoWait(cb) == TRUE

\* vkWaitForFences(device, 1, &fence, VK_TRUE, UINT64_MAX) returns VK_SUCCESS
FenceWaitOver(cb) == cb.fence = "signaled"

SupportedTransition_AnyToShaderRead(oldLayout, newLayout) ==
    \/ oldLayout = "UNDEFINED" /\ newLayout = "TRANSFER_DST_OPTIMAL"
    \/ newLayout = "SHADER_READ_ONLY_OPTIMAL"
    \/ oldLayout = "UNDEFINED" /\ newLayout = "DEPTH_STENCIL_ATTACHMENT_OPTIMAL"
    \/ oldLayout = "TRANSFER_DST_OPTIMAL" /\ newLayout = "TRANSFER_SRC_OPTIMAL"

\* the if / else-if chain that fills in access masks and stages
SupportedTransition(oldLayout, newLayout) ==
    \/ oldLayout = "UNDEFINED" /\ newLayout = "TRANSFER_DST_OPTIMAL"
    \/ oldLayout = "TRANSFER_DST_OPTIMAL" /\ newLayout = "SHADER_READ_ONLY_OPTIMAL"
    \/ oldLayout = "UNDEFINED" /\ newLayout = "DEPTH_STENCIL_ATTACHMENT_OPTIMAL"
    \/ oldLayout = "TRANSFER_DST_OPTIMAL" /\ newLayout = "TRANSFER_SRC_OPTIMAL"
    \/ oldLayout = "TRANSFER_SRC_OPTIMAL" /\ newLayout = "SHADER_READ_ONLY_OPTIMAL"

\* the call up to the point where it throws or blocks in vkWaitForFences
TransitionImageLayout(deviceOk, oldLayout, newLayout, mipLevels, baseMipLevel) ==
    LET begin == BeginSingleTimeCommands(deviceOk)
    IN  IF begin.ret # "ok"
        THEN begin
        ELSE IF ~SupportedTransition(oldLayout, newLayout)
        THEN [ret |-> "invalid_argument", cb |-> begin.cb]
        ELSE [ ret |-> "blocked",
               cb  |-> EndSingleTimeCommands(
                           [begin.cb EXCEPT !.commands =
                               <<Barrier(oldLayout, newLayout, baseMipLevel, mipLevels)>>]) ]

\* dstOffsets[1] of the blit into the next level
BlitDstDim(d) == IF d > 1 THEN d \div 2 ELSE 1

NextMipDim_Halves(d) == d \div 2

\* "if (mipWidth > 1) mipWidth /= 2;"
NextMipDim(d) == IF d > 1 THEN d \div 2 ELSE d

\* the commands of loop iterations i .. mipLevels - 1
RECURSIVE MipLoop(_, _, _, _)
MipLoop(i, mipLevels, mipWidth, mipHeight) ==
    IF i >= mipLevels
    THEN <<>>
    ELSE << Barrier("TRANSFER_DST_OPTIMAL", "TRANSFER_SRC_OPTIMAL", i - 1, 1),
            Barrier("UNDEFINED", "TRANSFER_DST_OPTIMAL", i, 1),
            Blit(i - 1, mipWidth, mipHeight,
                 i, BlitDstDim(mipWidth), BlitDstDim(mipHeight)) >>
         \o MipLoop(i + 1, mipLevels, NextMipDim(mipWidth), NextMipDim(mipHeight))

GenerateMipmaps_OneFinalBarrier(deviceOk, linearFilter, blitSupported, texWidth, texHeight, mipLevels) ==
    LET begin == BeginSingleTimeCommands(deviceOk)
    IN  IF mipLevels <= 1 \/ ~blitSupported
        THEN [ret |-> "ok", cb |-> [state |-> "none", commands |-> <<>>, fence |-> "none"]]
        ELSE IF begin.ret # "ok"
        THEN begin
        ELSE [ ret |-> "blocked",
               cb  |-> EndSingleTimeCommands(
                           [begin.cb EXCEPT !.commands =
                               MipLoop(1, mipLevels, texWidth, texHeight)
                               \o << Barrier("TRANSFER_SRC_OPTIMAL", "SHADER_READ_ONLY_OPTIMAL",
                                             0, mipLevels - 1),
                                     Barrier("TRANSFER_SRC_OPTIMAL", "SHADER_READ_ONLY_OPTIMAL",
                                             mipLevels - 1, 1) >>]) ]

\* the format's optimalTilingFeatures: linearFilter is
\* SAMPLED_IMAGE_FILTER_LINEAR (its absence is only logged), blitSupported is
\* BLIT_SRC and BLIT_DST; the call up to the point where it returns, throws
\* or blocks in vkWaitForFences
GenerateMipmaps(deviceOk, linearFilter, blitSupported, texWidth, texHeight, mipLevels) ==
    LET begin == BeginSingleTimeCommands(deviceOk)
    IN  IF mipLevels <= 1 \/ ~blitSupported
        THEN [ret |-> "ok", cb |-> [state |-> "none", commands |-> <<>>, fence |-> "none"]]
        ELSE IF begin.ret # "ok"
        THEN begin
        ELSE [ ret |-> "blocked",
               cb  |-> EndSingleTimeCommands(
                           [begin.cb EXCEPT !.commands =
                               MipLoop(1, mipLevels, texWidth, texHeight)
                               \o << Barrier("TRANSFER_SRC_OPTIMAL", "SHADER_READ_ONLY_OPTIMAL",
                                             0, mipLevels - 1),
                                     Barrier("TRANSFER_DST_OPTIMAL", "SHADER_READ_ONLY_OPTIMAL",
                                             mipLevels - 1, 1) >>]) ]

InitUtils ==
    /\ FrameAtRest
    /\ RecordAtRest
    /\ BufferAtRest
    /\ UtilsAtRest
    /\ SwapchainAtRest
    /\ CommandsAtRest
    /\ SamplersAtRest
    /\ AssetsAtRest
    /\ PhysicsAtRest
    /\ InputAtRest
    /\ SceneAtRest

TransitionImageLayoutCall(deviceOk, oldLayout, newLayout, mipLevels) ==
    LET r == TransitionImageLayout(deviceOk, oldLayout, newLayout, mipLevels, 0)
    IN  /\ utilCall.ret # "blocked"
        /\ oneShot' = r.cb
        /\ utilCall' = [ op   |-> "TransitionImageLayout",
                         ret  |-> r.ret,
                         args |-> [ deviceOk  |-> deviceOk,
                                    oldLayout |-> oldLayout,
                                    newLayout |-> newLayout,
                                    mipLevels |-> mipLevels ] ]
        /\ UNCHANGED <<frameVars, recordVars, bufferVars, swapVars, cmdVars, samplerVars, assetVars, physicsVars, inputVars, sceneVars>>

GenerateMipmapsCall(deviceOk, linearFilter, blitSupported, texWidth, texHeight, mipLevels) ==
    LET r == GenerateMipmaps(deviceOk, linearFilter, blitSupported,
                             texWidth, texHeight, mipLevels)
    IN  /\ utilCall.ret # "blocked"
        /\ oneShot' = r.cb
        /\ utilCall' = [ op   |-> "GenerateMipmaps",
                         ret  |-> r.ret,
                         args |-> [ deviceOk      |-> deviceOk,
                                    linearFilter  |-> linearFilter,
                                    blitSupported |-> blitSupported,
                                    texWidth      |-> texWidth,
                                    texHeight     |-> texHeight,
                                    mipLevels     |-> mipLevels ] ]
        /\ UNCHANGED <<frameVars, recordVars, bufferVars, swapVars, cmdVars, samplerVars, assetVars, physicsVars, inputVars, sceneVars>>

\* the queue finishes the submitted command buffer and signals its fence
DeviceExecutesOneShot ==
    /\ oneShot.state = "pending"
    /\ oneShot' = [oneShot EXCEPT !.state = "complete", !.fence = "signaled"]
    /\ UNCHANGED <<utilCall, frameVars, recordVars, bufferVars, swapVars, cmdVars, samplerVars, assetVars, physicsVars, inputVars, sceneVars>>

\* the rest of EndSingleTimeCommands: the wait returns, then vkDestroyFence
\* and vkFreeCommandBuffers; a wait that fails (device lost) throws from
\* VK_CHECK and releases nothing
WaitForFencesReturns(vkRes) ==
    /\ utilCall.ret = "blocked"
    /\ IF vkRes = VK_SUCCESS
       THEN /\ FenceWaitOver(oneShot)
            /\ oneShot' = [oneShot EXCEPT !.state = "freed", !.fence = "destroyed"]
            /\ utilCall' = [utilCall EXCEPT !.ret = "ok"]
       ELSE /\ oneShot' = oneShot
            /\ utilCall' = [utilCall EXCEPT !.ret = "runtime_error"]
    /\ UNCHANGED <<frameVars, recordVars, bufferVars, swapVars, cmdVars, samplerVars, assetVars, physicsVars, inputVars, sceneVars>>

NextUtils ==
    \/ \E deviceOk \in BOOLEAN, oldLayout \in ImageLayouts, newLayout \in ImageLayouts,
          mipLevels \in 1 .. MaxMipLevels :
          TransitionImageLayoutCall(deviceOk, oldLayout, newLayout, mipLevels)
    \/ \E deviceOk \in BOOLEAN, linearFilter \in BOOLEAN, blitSupported \in BOOLEAN,
          texWidth \in 1 .. MaxTexDim, texHeight \in 1 .. MaxTexDim,
          mipLevels \in 0 .. MaxMipLevels :
          GenerateMipmapsCall(deviceOk, linearFilter, blitSupported,
                              texWidth, texHeight, mipLevels)
    \/ DeviceExecutesOneShot
    \/ \E vkRes \in {VK_SUCCESS, "VK_ERROR_DEVICE_LOST"} : WaitForFencesReturns(vkRes)

SpecUtils == InitUtils /\ [][NextUtils]_vars

\* ------------------------------------------------------------------ Swapchain
\* One Swapchain object over a VulkanContext.  A VkSwapchainKHR handle is a
\* positive number, 0 is VK_NULL_HANDLE; vkSwapchains[h] counts the
\* vkDestroySwapchainKHR calls on handle h.  swapchain.life is "none" before
\* the constructor, "alive", "failed" (the constructor threw), "gone" (after
\* the destructor) or "crashed".

\* what VulkanContext can hold: a device with a window surface and what
\* QuerySwapChainSupport reports for it
SurfaceSupports ==
    { s \in [ device         : {TRUE},
              surface        : {TRUE},
              formats        : { <<>>, <<"R8G8B8A8_UNORM">>,
                                 <<"R8G8B8A8_UNORM", "B8G8R8A8_SRGB">> },
              presentModes   : { <<>>, <<"FIFO">> },
              minImageCount  : 1 .. MaxMinImageCount,
              maxImageCount  : 0 .. MaxMinImageCount + 1,
              currentExtent  : { <<UINT32_MAX, UINT32_MAX>>, <<MinExtent + 1, MinExtent + 1>> },
              minImageExtent : { <<MinExtent, MinExtent + 1>> },
              maxImageExtent : { <<MinExtent + 1, MinExtent + 2>> } ] :
        s.maxImageCount = 0 \/ s.maxImageCount >= s.minImageCount }

\* VulkanContext(window, skipVulkanInit = true): no device, no surface;
\* QuerySwapChainSupport returns empty details
DummyContext ==
    [ device |-> FALSE, surface |-> FALSE, formats |-> <<>>, presentModes |-> <<>>,
      minImageCount |-> 0, maxImageCount |-> 0, currentExtent |-> <<0, 0>>,
      minImageExtent |-> <<0, 0>>, maxImageExtent |-> <<0, 0>> ]

ChooseSwapSurfaceFormat(availableFormats) ==
    IF \E i \in 1 .. Len(availableFormats) : availableFormats[i] = "B8G8R8A8_SRGB"
    THEN "B8G8R8A8_SRGB"
    ELSE availableFormats[1]

RequestedImageCount_NoCap(capabilities) == capabilities.minImageCount + 1

\* the image count CreateActualSwapchain puts in createInfo.minImageCount
RequestedImageCount(capabilities) ==
    LET plusOne == capabilities.minImageCount + 1
        capped  == IF capabilities.maxImageCount > 0 /\ plusOne > capabilities.maxImageCount
                   THEN capabilities.maxImageCount
                   ELSE plusOne
    IN  IF capped < capabilities.minImageCount THEN capabilities.minImageCount ELSE capped

\* the state of the handle passed as createInfo.oldSwapchain
HintState(handles, old) ==
    IF old = 0 THEN "null" ELSE IF handles[old] = 0 THEN "live" ELSE "destroyed"

CleanupCurrentSwapchain_KeepsImages(obj, handles, ctx) ==
    LET destroys == obj.m_SwapChain # 0 /\ ctx.device
    IN  [ obj     |-> [obj EXCEPT !.m_SwapChainImageViews = <<>>,
                                  !.m_SwapChain = IF destroys THEN 0 ELSE @],
          handles |-> IF destroys THEN [handles EXCEPT ![obj.m_SwapChain] = @ + 1]
                      ELSE handles ]

\* destroys the views, then the swapchain this object holds, and clears the image list
CleanupCurrentSwapchain(obj, handles, ctx) ==
    LET destroys == obj.m_SwapChain # 0 /\ ctx.device
    IN  [ obj     |-> [obj EXCEPT !.m_SwapChainImageViews = <<>>,
                                  !.m_SwapChain = IF destroys THEN 0 ELSE @,
                                  !.m_SwapChainImages = <<>>],
          handles |-> IF destroys THEN [handles EXCEPT ![obj.m_SwapChain] = @ + 1]
                      ELSE handles ]

CreateActualSwapchain_NeverThrows(obj, handles, ctx, old, vkRes) ==
    [ ret |-> "ok",
      obj |-> [obj EXCEPT !.m_SwapChainImageFormat = "UNDEFINED", !.m_SwapChainExtent = <<0, 0>>],
      handles |-> handles, hint |-> "none" ]

\* vkRes is the result of vkCreateSwapchainKHR
CreateActualSwapchain(obj, handles, ctx, old, vkRes) ==
    IF ctx.formats = <<>> \/ ctx.presentModes = <<>>
    THEN IF ctx.surface
         THEN [ret |-> "runtime_error", obj |-> obj, handles |-> handles, hint |-> "none"]
         ELSE [ ret |-> "ok",
                obj |-> [obj EXCEPT !.m_SwapChainImageFormat = "UNDEFINED",
                                    !.m_SwapChainExtent = <<0, 0>>],
                handles |-> handles, hint |-> "none" ]
    ELSE LET requested == [obj EXCEPT !.minImageCount = RequestedImageCount(ctx)]
         IN  IF vkRes # VK_SUCCESS
             THEN [ ret |-> IF vkRes = "crash" THEN "crash" ELSE "runtime_error",
                    obj |-> requested, handles |-> handles,
                    hint |-> HintState(handles, old) ]
             ELSE [ ret |-> "ok",
                    obj |-> [requested EXCEPT
                                !.m_SwapChain = Len(handles) + 1,
                                !.m_SwapChainImageFormat = ChooseSwapSurfaceFormat(ctx.formats),
                                !.m_SwapChainExtent =
                                    ChooseSwapExtentCaps(ctx, obj.m_CurrentWindowWidth,
                                                         obj.m_CurrentWindowHeight)],
                    handles |-> Append(handles, 0),
                    hint |-> HintState(handles, old) ]

\* Swapchain::Init: CreateActualSwapchain, then RetrieveSwapchainImages (the
\* platform hands out the requested number of images) and
\* CreateSwapchainImageViews (one view per image)
Swapchain_Init(obj, handles, ctx, old, vkRes) ==
    IF ~ctx.device \/ ~ctx.surface
    THEN [ ret |-> IF ctx.device THEN "runtime_error" ELSE "ok",
           obj |-> obj, handles |-> handles, hint |-> "none" ]
    ELSE LET c == CreateActualSwapchain(obj, handles, ctx, old, vkRes)
             retrieved == IF c.obj.m_SwapChain = 0 THEN <<>>
                          ELSE [i \in 1 .. c.obj.minImageCount |-> <<c.obj.m_SwapChain, i>>]
         IN  IF c.ret # "ok" THEN c
             ELSE [c EXCEPT !.obj =
                      [c.obj EXCEPT
                          !.m_SwapChainImages = retrieved,
                          !.m_SwapChainImageViews =
                              [i \in 1 .. Len(retrieved) |->
                                  [image |-> retrieved[i],
                                   format |-> c.obj.m_SwapChainImageFormat]]]]

InitSwapchain ==
    /\ FrameAtRest
    /\ RecordAtRest
    /\ BufferAtRest
    /\ UtilsAtRest
    /\ CommandsAtRest
    /\ SamplersAtRest
    /\ AssetsAtRest
    /\ PhysicsAtRest
    /\ InputAtRest
    /\ SceneAtRest
    /\ surface \in SurfaceSupports \cup {DummyContext}
    /\ swapchain = [life |-> "none"]
    /\ vkSwapchains = <<>>
    /\ scCall = [op |-> "none", ret |-> "none"]

\* Swapchain(context, windowWidth, windowHeight): previousSwapchainHandle is
\* left at its default VK_NULL_HANDLE
SwapchainConstruct(windowWidth, windowHeight, vkRes) ==
    LET obj == [ life |-> "alive",
                 m_CurrentWindowWidth   |-> windowWidth,
                 m_CurrentWindowHeight  |-> windowHeight,
                 m_SwapChain            |-> 0,
                 m_SwapChainImageFormat |-> "UNDEFINED",
                 m_SwapChainExtent      |-> <<0, 0>>,
                 m_SwapChainImages      |-> <<>>,
                 m_SwapChainImageViews  |-> <<>>,
                 minImageCount          |-> 0 ]
        r == Swapchain_Init(obj, vkSwapchains, surface, 0, vkRes)
    IN  /\ swapchain.life = "none"
        /\ vkRes # "crash"
        /\ swapchain' = [r.obj EXCEPT !.life = IF r.ret = "ok" THEN "alive" ELSE "failed"]
        /\ vkSwapchains' = r.handles
        /\ scCall' = [op |-> "Swapchain", ret |-> r.ret, hint |-> r.hint]
        /\ UNCHANGED <<surface, frameVars, recordVars, bufferVars, utilVars, cmdVars, samplerVars, assetVars, physicsVars, inputVars, sceneVars>>

\* passing a destroyed handle as oldSwapchain is undefined: the creation may
\* succeed, fail or crash
SwapchainRecreate(newWidth, newHeight, oldSwapchainHandle, vkRes) ==
    LET sized == [swapchain EXCEPT !.m_CurrentWindowWidth = newWidth,
                                   !.m_CurrentWindowHeight = newHeight]
        c == CleanupCurrentSwapchain(sized, vkSwapchains, surface)
        r == Swapchain_Init(c.obj, c.handles, surface, oldSwapchainHandle, vkRes)
    IN  /\ swapchain.life = "alive"
        /\ Len(vkSwapchains) < MaxSwapchains
        /\ vkRes = "crash" => r.hint = "destroyed"
        /\ swapchain' = [r.obj EXCEPT !.life = IF r.ret = "crash" THEN "crashed" ELSE "alive"]
        /\ vkSwapchains' = r.handles
        /\ scCall' = [op |-> "Recreate", ret |-> r.ret, hint |-> r.hint]
        /\ UNCHANGED <<surface, frameVars, recordVars, bufferVars, utilVars, cmdVars, samplerVars, assetVars, physicsVars, inputVars, sceneVars>>

\* ~Swapchain
SwapchainDestroy ==
    LET c == CleanupCurrentSwapchain(swapchain, vkSwapchains, surface)
    IN  /\ swapchain.life = "alive"
        /\ swapchain' = [c.obj EXCEPT !.life = "gone"]
        /\ vkSwapchains' = c.handles
        /\ scCall' = [op |-> "~Swapchain", ret |-> "ok", hint |-> "none"]
        /\ UNCHANGED <<surface, frameVars, recordVars, bufferVars, utilVars, cmdVars, samplerVars, assetVars, physicsVars, inputVars, sceneVars>>

NextSwapchain ==
    \/ \E w \in 1 .. MaxRequest, h \in 1 .. MaxRequest,
          vkRes \in {VK_SUCCESS, "VK_ERROR_OUT_OF_DEVICE_MEMORY"} :
          SwapchainConstruct(w, h, vkRes)
    \/ /\ swapchain.life = "alive"
       /\ \E w \in 1 .. MaxRequest, h \in 1 .. MaxRequest,
          old \in {0, swapchain.m_SwapChain},
          vkRes \in {VK_SUCCESS, "VK_ERROR_OUT_OF_DEVICE_MEMORY", "crash"} :
          SwapchainRecreate(w, h, old, vkRes)
    \/ SwapchainDestroy

SpecSwapchain == InitSwapchain /\ [][NextSwapchain]_vars

\* ------------------------------------------------------------- CommandManager
\* One CommandManager.  m_CommandPool is TRUE for a created pool;
\* m_CommandBuffers[i + 1] is the command buffer of frame index i, with the
\* handle vkAllocateCommandBuffers returned and its recording state;
\* allocations counts the vkAllocateCommandBuffers calls.

ValidFrameIndex_OffByOne(mgr, frameIndex) == frameIndex <= Len(mgr.m_CommandBuffers)

\* the bounds test of BeginFrameRecording, EndFrameRecording and GetCommandBuffer
ValidFrameIndex(mgr, frameIndex) == frameIndex < Len(mgr.m_CommandBuffers)

InitCommands ==
    /\ FrameAtRest
    /\ RecordAtRest
    /\ BufferAtRest
    /\ UtilsAtRest
    /\ SwapchainAtRest
    /\ SamplersAtRest
    /\ AssetsAtRest
    /\ PhysicsAtRest
    /\ InputAtRest
    /\ SceneAtRest
    /\ cmdManager = [life |-> "none"]
    /\ cmdCall = [op |-> "none", ret |-> "none"]

\* CommandManager(context, frameCount, skipInit); deviceOk: context.device is
\* not VK_NULL_HANDLE
CommandManagerConstruct(frameCount, skipInit, deviceOk) ==
    LET ret == IF skipInit THEN "ok"
               ELSE IF ~deviceOk THEN "runtime_error"
               ELSE IF frameCount = 0 THEN "invalid_argument"
               ELSE "ok"
        built == ~skipInit /\ ret = "ok"
    IN  /\ cmdManager.life = "none"
        /\ cmdManager' =
              [ life             |-> IF ret = "ok" THEN "alive" ELSE "failed",
                m_CommandPool    |-> built,
                m_FrameCount     |-> frameCount,
                m_CommandBuffers |-> IF built
                                     THEN [i \in 1 .. frameCount |->
                                              [handle |-> i, state |-> "initial"]]
                                     ELSE <<>>,
                allocations      |-> IF built THEN 1 ELSE 0 ]
        /\ cmdCall' = [op |-> "CommandManager", ret |-> ret, frameIndex |-> 0]
        /\ UNCHANGED <<frameVars, recordVars, bufferVars, utilVars, swapVars, samplerVars, assetVars, physicsVars, inputVars, sceneVars>>

BeginFrameRecording(frameIndex) ==
    /\ cmdManager.life = "alive"
    /\ IF ~cmdManager.m_CommandPool
       THEN /\ cmdCall' = [op |-> "BeginFrameRecording", ret |-> "VK_NULL_HANDLE",
                           frameIndex |-> frameIndex]
            /\ UNCHANGED cmdManager
       ELSE IF ~ValidFrameIndex(cmdManager, frameIndex)
       THEN /\ cmdCall' = [op |-> "BeginFrameRecording", ret |-> "out_of_range",
                           frameIndex |-> frameIndex]
            /\ UNCHANGED cmdManager
       ELSE /\ cmdCall' = [op |-> "BeginFrameRecording", ret |-> "handle",
                           frameIndex |-> frameIndex]
            /\ cmdManager' = [cmdManager EXCEPT
                                 !.m_CommandBuffers[frameIndex + 1].state = "recording"]
    /\ UNCHANGED <<frameVars, recordVars, bufferVars, utilVars, swapVars, samplerVars, assetVars, physicsVars, inputVars, sceneVars>>

\* called on a valid index only for a buffer that is recording
EndFrameRecording(frameIndex) ==
    /\ cmdManager.life = "alive"
    /\ IF ~cmdManager.m_CommandPool
       THEN /\ cmdCall' = [op |-> "EndFrameRecording", ret |-> "void",
                           frameIndex |-> frameIndex]
            /\ UNCHANGED cmdManager
       ELSE IF ~ValidFrameIndex(cmdManager, frameIndex)
       THEN /\ cmdCall' = [op |-> "EndFrameRecording", ret |-> "out_of_range",
                           frameIndex |-> frameIndex]
            /\ UNCHANGED cmdManager
       ELSE /\ cmdManager.m_CommandBuffers[frameIndex + 1].state = "recording"
            /\ cmdCall' = [op |-> "EndFrameRecording", ret |-> "void",
                           frameIndex |-> frameIndex]
            /\ cmdManager' = [cmdManager EXCEPT
                                 !.m_CommandBuffers[frameIndex + 1].state = "executable"]
    /\ UNCHANGED <<frameVars, recordVars, bufferVars, utilVars, swapVars, samplerVars, assetVars, physicsVars, inputVars, sceneVars>>

GetCommandBuffer(frameIndex) ==
    /\ cmdManager.life = "alive"
    /\ cmdCall' = [ op |-> "GetCommandBuffer",
                    ret |-> IF ValidFrameIndex(cmdManager, frameIndex)
                            THEN "handle" ELSE "out_of_range",
                    frameIndex |-> frameIndex ]
    /\ UNCHANGED cmdManager
    /\ UNCHANGED <<frameVars, recordVars, bufferVars, utilVars, swapVars, samplerVars, assetVars, physicsVars, inputVars, sceneVars>>

NextCommands ==
    \/ \E frameCount \in 0 .. MaxFrameCount, skipInit \in BOOLEAN, deviceOk \in BOOLEAN :
          CommandManagerConstruct(frameCount, skipInit, deviceOk)
    \/ \E frameIndex \in 0 .. MaxFrameCount + 1 : BeginFrameRecording(frameIndex)
    \/ \E frameIndex \in 0 .. MaxFrameCount + 1 : EndFrameRecording(frameIndex)
    \/ \E frameIndex \in 0 .. MaxFrameCount + 1 : GetCommandBuffer(frameIndex)

SpecCommands == InitCommands /\ [][NextCommands]_vars

\* --------------------------------------------------------------- SamplerCache
\* One SamplerCache.  m_SamplerMap is the set of its (key, sampler) entries;
\* vkSamplers[g] is the sampler object vkCreateSampler returned as handle
\* [gen |-> g], with the key it was created for.  samplerLog holds, for every
\* GetOrCreateSampler call made so far, its key, its result and whether the
\* lookup found an entry.

\* SamplerInfoKey::operator==
SamplerInfoKeyEq(a, b) ==
    /\ a.magFilter = b.magFilter
    /\ a.minFilter = b.minFilter
    /\ a.mipmapMode = b.mipmapMode
    /\ a.addressModeU = b.addressModeU
    /\ a.addressModeV = b.addressModeV
    /\ a.addressModeW = b.addressModeW
    /\ a.mipLodBias = b.mipLodBias
    /\ a.anisotropyEnable = b.anisotropyEnable
    /\ a.maxAnisotropy = b.maxAnisotropy
    /\ a.compareEnable = b.compareEnable
    /\ a.compareOp = b.compareOp
    /\ a.minLod = b.minLod
    /\ a.maxLod = b.maxLod
    /\ a.borderColor = b.borderColor
    /\ a.unnormalizedCoordinates = b.unnormalizedCoordinates

\* SamplerInfoKey{}: the member initialisers of the struct
SamplerInfoKeyDefaults ==
    [ magFilter |-> "LINEAR", minFilter |-> "LINEAR", mipmapMode |-> "LINEAR",
      addressModeU |-> "REPEAT", addressModeV |-> "REPEAT", addressModeW |-> "REPEAT",
      mipLodBias |-> 0, anisotropyEnable |-> TRUE, maxAnisotropy |-> 16,
      compareEnable |-> FALSE, compareOp |-> "NEVER", minLod |-> 0,
      maxLod |-> VK_LOD_CLAMP_NONE, borderColor |-> "INT_OPAQUE_BLACK",
      unnormalizedCoordinates |-> FALSE ]

\* the key of the default sampler
DefaultInfo(cache) ==
    [SamplerInfoKeyDefaults EXCEPT !.maxLod = VK_LOD_CLAMP_NONE,
                                   !.anisotropyEnable = TRUE,
                                   !.maxAnisotropy = cache.m_MaxDeviceAnisotropy]

\* the keys GetOrCreateSampler is called with: the struct defaults, and the
\* key of a loaded texture with mipLevels levels
SamplerKeys(cache) ==
    {SamplerInfoKeyDefaults} \cup
    { [SamplerInfoKeyDefaults EXCEPT !.maxLod = mipLevels,
                                     !.anisotropyEnable = TRUE,
                                     !.maxAnisotropy = cache.m_MaxDeviceAnisotropy] :
         mipLevels \in 1 .. MaxSamplerLod }

\* vkCreateSampler on the create info built from the key
CreateNewSampler(cache, info, vkRes) ==
    LET samplerCreateInfo ==
            [info EXCEPT !.maxAnisotropy =
                            IF info.anisotropyEnable
                            THEN IF info.maxAnisotropy < cache.m_MaxDeviceAnisotropy
                                 THEN info.maxAnisotropy
                                 ELSE cache.m_MaxDeviceAnisotropy
                            ELSE 1]
    IN  IF vkRes # VK_SUCCESS
        THEN [vkSamplers |-> cache.vkSamplers, sampler |-> VK_NULL_HANDLE]
        ELSE [ vkSamplers |-> Append(cache.vkSamplers,
                                     [info |-> info, createInfo |-> samplerCreateInfo]),
               sampler    |-> [gen |-> Len(cache.vkSamplers) + 1] ]

SamplerMapFind_NeverHits(map, info) == {}

\* m_SamplerMap.find(info): the entries whose key compares equal
SamplerMapFind(map, info) == {e \in map : SamplerInfoKeyEq(e.key, info)}

GetOrCreateSampler(cache, info, vkRes) ==
    LET it == SamplerMapFind(cache.m_SamplerMap, info)
        newSampler == CreateNewSampler(cache, info, vkRes)
    IN  IF it # {}
        THEN [cache |-> cache, ret |-> (CHOOSE e \in it : TRUE).sampler, found |-> TRUE]
        ELSE IF newSampler.sampler # VK_NULL_HANDLE
        THEN [ cache |-> [cache EXCEPT
                             !.vkSamplers = newSampler.vkSamplers,
                             !.m_SamplerMap = @ \cup {[key |-> info,
                                                       sampler |-> newSampler.sampler]}],
               ret   |-> newSampler.sampler,
               found |-> FALSE ]
        ELSE [cache |-> cache, ret |-> VK_NULL_HANDLE, found |-> FALSE]

InitSamplers ==
    /\ FrameAtRest
    /\ RecordAtRest
    /\ BufferAtRest
    /\ UtilsAtRest
    /\ SwapchainAtRest
    /\ CommandsAtRest
    /\ AssetsAtRest
    /\ PhysicsAtRest
    /\ InputAtRest
    /\ SceneAtRest
    /\ samplerCache = [life |-> "none"]
    /\ samplerCall = [op |-> "none", ret |-> "none"]
    /\ samplerLog = {}

\* SamplerCache(device, physicalDevice); maxSamplerAnisotropy is the limit the
\* physical device reports
SamplerCacheConstruct(deviceOk, maxSamplerAnisotropy, vkRes) ==
    LET empty == [ life |-> "alive", m_MaxDeviceAnisotropy |-> maxSamplerAnisotropy,
                   m_SamplerMap |-> {}, vkSamplers |-> <<>>,
                   m_CachedDefaultSampler |-> VK_NULL_HANDLE ]
        r == GetOrCreateSampler(empty, DefaultInfo(empty), vkRes)
    IN  /\ samplerCache.life = "none"
        /\ IF ~deviceOk
           THEN /\ samplerCache' = [life |-> "failed"]
                /\ samplerCall' = [op |-> "SamplerCache", ret |-> "runtime_error"]
                /\ UNCHANGED samplerLog
           ELSE /\ samplerCache' = [r.cache EXCEPT !.m_CachedDefaultSampler = r.ret]
                /\ samplerCall' = [op |-> "SamplerCache", ret |-> "ok"]
                /\ samplerLog' = {[info |-> DefaultInfo(empty), ret |-> r.ret,
                                   found |-> r.found]}
        /\ UNCHANGED <<frameVars, recordVars, bufferVars, utilVars, swapVars, cmdVars, assetVars, physicsVars, inputVars, sceneVars>>

GetOrCreateSamplerCall(info, vkRes) ==
    LET r == GetOrCreateSampler(samplerCache, info, vkRes)
    IN  /\ samplerCache.life = "alive"
        /\ samplerCache' = r.cache
        /\ samplerCall' = [op |-> "GetOrCreateSampler", ret |-> r.ret]
        /\ samplerLog' = samplerLog \cup {[info |-> info, ret |-> r.ret, found |-> r.found]}
        /\ UNCHANGED <<frameVars, recordVars, bufferVars, utilVars, swapVars, cmdVars, assetVars, physicsVars, inputVars, sceneVars>>

GetDefaultSampler(vkRes) ==
    LET r == GetOrCreateSampler(samplerCache, DefaultInfo(samplerCache), vkRes)
    IN  /\ samplerCache.life = "alive"
        /\ IF samplerCache.m_CachedDefaultSampler = VK_NULL_HANDLE
           THEN /\ samplerCache' = [r.cache EXCEPT !.m_CachedDefaultSampler = r.ret]
                /\ samplerCall' = [op |-> "GetDefaultSampler", ret |-> r.ret]
                /\ samplerLog' = samplerLog \cup {[info |-> DefaultInfo(samplerCache),
                                                   ret |-> r.ret, found |-> r.found]}
           ELSE /\ samplerCall' = [op |-> "GetDefaultSampler",
                                   ret |-> samplerCache.m_CachedDefaultSampler]
                /\ UNCHANGED <<samplerCache, samplerLog>>
        /\ UNCHANGED <<frameVars, recordVars, bufferVars, utilVars, swapVars, cmdVars, assetVars, physicsVars, inputVars, sceneVars>>

NextSamplers ==
    \/ \E deviceOk \in BOOLEAN, maxSamplerAnisotropy \in 1 .. MaxAnisotropy,
          vkRes \in {VK_SUCCESS, VK_ERROR_OUT_OF_HOST_MEMORY} :
          SamplerCacheConstruct(deviceOk, maxSamplerAnisotropy, vkRes)
    \/ /\ samplerCache.life = "alive"
       /\ \E info \in SamplerKeys(samplerCache),
             vkRes \in {VK_SUCCESS, VK_ERROR_OUT_OF_HOST_MEMORY} :
             GetOrCreateSamplerCall(info, vkRes)
    \/ \E vkRes \in {VK_SUCCESS, VK_ERROR_OUT_OF_HOST_MEMORY} : GetDefaultSampler(vkRes)

SpecSamplers == InitSamplers /\ [][NextSamplers]_vars

\* ------------------------------------------------- AssetManager: materials
\* m_LoadedMaterials[h + 1] is the material of handle h;
\* m_MaterialNameToHandleMap and m_ModelPathToHandleMap are functions on the
\* keys they hold; allocated counts the descriptor sets taken from the
\* renderer's pool; poolOk: the renderer's material layout and descriptor
\* pool are not VK_NULL_HANDLE.  movedFromEmpty: a std::string that was moved
\* from is empty (it is left in a valid but unspecified state; the
\* alternative modelled is that it keeps its value).

MaterialNames == {"wood", "metal"}
ModelPaths == {"a.gltf", "b.gltf"}

\* LoadedModelData::materialsFromFile of a model file
MaterialLists ==
    UNION { [1 .. n -> MaterialNames] : n \in 0 .. MaxModelMaterials }

\* newMaterial.name, read after std::move(newMaterial)
MovedFromName(am, name) == IF am.movedFromEmpty THEN "" ELSE name

MapPut(map, key, value) ==
    [k \in DOMAIN map \cup {key} |-> IF k = key THEN value ELSE map[k]]

\* AssetManager::CreateDefaultAssets, the default material
CreateDefaultMaterial(am) ==
    LET defaultMat == [ name |-> "DEFAULT_ENGINE_MATERIAL",
                        descriptorSet |-> IF am.poolOk THEN [gen |-> am.allocated + 1]
                                          ELSE VK_NULL_HANDLE ]
    IN  [am EXCEPT
            !.allocated = IF am.poolOk THEN @ + 1 ELSE @,
            !.m_LoadedMaterials = Append(@, defaultMat),
            !.m_MaterialNameToHandleMap =
                MapPut(@, MovedFromName(am, defaultMat.name), Len(am.m_LoadedMaterials))]

ProcessLoadedMaterial(am, name, vkRes) ==
    IF name \in DOMAIN am.m_MaterialNameToHandleMap
    THEN [am |-> am, ret |-> am.m_MaterialNameToHandleMap[name]]
    ELSE LET allocOk == am.poolOk /\ vkRes = VK_SUCCESS
             newMaterial ==
                 [ name |-> name,
                   descriptorSet |-> IF allocOk THEN [gen |-> am.allocated + 1]
                                     ELSE am.m_LoadedMaterials[m_DefaultMaterial + 1].descriptorSet ]
             newHandle == Len(am.m_LoadedMaterials)
         IN  [ am  |-> [am EXCEPT
                           !.allocated = IF allocOk THEN @ + 1 ELSE @,
                           !.m_LoadedMaterials = Append(@, newMaterial),
                           !.m_MaterialNameToHandleMap =
                               MapPut(@, MovedFromName(am, name), newHandle)],
               ret |-> newHandle ]

\* the loop over loadedCpuData.materialsFromFile in LoadModel
RECURSIVE ProcessMaterials(_, _, _, _)
ProcessMaterials(am, names, vkRes, handles) ==
    IF names = <<>>
    THEN [am |-> am, handles |-> handles]
    ELSE LET r == ProcessLoadedMaterial(am, Head(names), vkRes)
         IN  ProcessMaterials(r.am, Tail(names), vkRes, Append(handles, r.ret))

InitMaterials ==
    /\ FrameAtRest
    /\ RecordAtRest
    /\ BufferAtRest
    /\ UtilsAtRest
    /\ SwapchainAtRest
    /\ CommandsAtRest
    /\ SamplersAtRest
    /\ PhysicsAtRest
    /\ InputAtRest
    /\ SceneAtRest
    /\ assetManager = [life |-> "none"]
    /\ assetCall = [op |-> "none", ret |-> "none"]

\* AssetManager::AssetManager -> CreateDefaultAssets; a failing allocation of
\* the default material's set throws (VK_CHECK)
AssetManagerConstruct(poolOk, movedFromEmpty, vkRes) ==
    LET empty == [ life |-> "alive", poolOk |-> poolOk, movedFromEmpty |-> movedFromEmpty,
                   allocated |-> 0, m_LoadedMaterials |-> <<>>,
                   m_MaterialNameToHandleMap |-> <<>>,
                   m_ModelPathToHandleMap |-> <<>>, m_LoadedModels |-> <<>> ]
    IN  /\ assetManager.life = "none"
        /\ IF poolOk /\ vkRes # VK_SUCCESS
           THEN /\ assetManager' = [life |-> "failed"]
                /\ assetCall' = [op |-> "AssetManager", ret |-> "runtime_error"]
           ELSE /\ assetManager' = CreateDefaultMaterial(empty)
                /\ assetCall' = [op |-> "AssetManager", ret |-> "ok"]
        /\ UNCHANGED <<frameVars, recordVars, bufferVars, utilVars, swapVars, cmdVars,
                       samplerVars, physicsVars, inputVars, sceneVars>>

\* AssetManager::LoadModel; loaderOk: ModelLoader::LoadModel succeeded and
\* read materialsFromFile
LoadModel(filepath, loaderOk, materialsFromFile, vkRes) ==
    LET r == ProcessMaterials(assetManager, materialsFromFile, vkRes, <<>>)
        newHandle == Len(assetManager.m_LoadedModels)
    IN  /\ assetManager.life = "alive"
        /\ IF filepath \in DOMAIN assetManager.m_ModelPathToHandleMap
           THEN /\ assetCall' = [op |-> "LoadModel", ret |-> "cached",
                                 materials |-> <<>>, handles |-> <<>>]
                /\ UNCHANGED assetManager
           ELSE IF ~loaderOk
           THEN /\ assetCall' = [op |-> "LoadModel", ret |-> "InvalidModelHandle",
                                 materials |-> <<>>, handles |-> <<>>]
                /\ UNCHANGED assetManager
           ELSE /\ assetManager' =
                      [r.am EXCEPT !.m_LoadedModels = Append(@, r.handles),
                                   !.m_ModelPathToHandleMap = MapPut(@, filepath, newHandle)]
                /\ assetCall' = [op |-> "LoadModel", ret |-> "loaded",
                                 materials |-> materialsFromFile, handles |-> r.handles]
        /\ UNCHANGED <<frameVars, recordVars, bufferVars, utilVars, swapVars, cmdVars,
                       samplerVars, physicsVars, inputVars, sceneVars>>

NextMaterials ==
    \/ \E poolOk \in BOOLEAN, movedFromEmpty \in BOOLEAN,
          vkRes \in {VK_SUCCESS, VK_ERROR_OUT_OF_HOST_MEMORY} :
          AssetManagerConstruct(poolOk, movedFromEmpty, vkRes)
    \/ \E filepath \in ModelPaths, loaderOk \in BOOLEAN, materialsFromFile \in MaterialLists,
          vkRes \in {VK_SUCCESS, VK_ERROR_OUT_OF_HOST_MEMORY} :
          LoadModel(filepath, loaderOk, materialsFromFile, vkRes)

SpecMaterials == InitMaterials /\ [][NextMaterials]_vars

\* ------------------------------------------------------------ PhysicsSystem
\* PhysicsSystem::Update and the tick callback Bullet calls once per
\* simulation substep.  A collision pair is the normalized pair of two bodies;
\* every body carries a GameObject with a RigidBodyComponent, so each
\* notification reaches both receivers and is recorded once per pair.
CollisionPairs == {"a-b", "a-c"}

\* the order in which the dispatcher's manifolds and the std::set are walked
PairOrder == <<"a-b", "a-c">>

OnCollisionEnter == "OnCollisionEnter"
OnCollisionExit == "OnCollisionExit"

\* CustomInternalTickCallback::PrepareTick
PrepareTick(cb) ==
    [cb EXCEPT !.m_PreviousTickActivePairs = cb.m_CurrentTickActivePairs,
               !.m_CurrentTickActivePairs = {}]

\* one notification of `kind` for each pair of S, from the n-th pair of PairOrder on
RECURSIVE Notifications(_, _, _)
Notifications(kind, S, n) ==
    IF n > Len(PairOrder) THEN <<>>
    ELSE (IF PairOrder[n] \in S THEN <<[kind |-> kind, pair |-> PairOrder[n]]>> ELSE <<>>)
            \o Notifications(kind, S, n + 1)

\* CustomInternalTickCallback::internalTick; contacts are the pairs whose
\* manifold has a contact point of distance <= 0 in this substep
internalTick(cb, contacts) ==
    LET current == cb.m_CurrentTickActivePairs \cup contacts
        entered == contacts \ cb.m_PreviousTickActivePairs
        exitedPairs == cb.m_PreviousTickActivePairs \ current
    IN  [ cb     |-> [cb EXCEPT !.m_CurrentTickActivePairs = current],
          events |-> Notifications(OnCollisionEnter, entered, 1)
                        \o Notifications(OnCollisionExit, exitedPairs, 1) ]

\* btDynamicsWorld::stepSimulation: one internalTick per substep; substeps is
\* the sequence of the substeps' contact sets
RECURSIVE stepSimulation(_, _)
stepSimulation(cb, substeps) ==
    IF substeps = <<>> THEN [cb |-> cb, events |-> <<>>]
    ELSE LET tick == internalTick(cb, Head(substeps))
             rest == stepSimulation(tick.cb, Tail(substeps))
         IN  [cb |-> rest.cb, events |-> tick.events \o rest.events]

\* the kind of the last notification in events for pair p, or last if none
RECURSIVE LastDelivered(_, _, _)
LastDelivered(last, events, p) ==
    IF events = <<>> THEN last
    ELSE LastDelivered(IF Head(events).pair = p THEN Head(events).kind ELSE last,
                       Tail(events), p)

\* the contact sets of the substeps of one Update
RECURSIVE SubstepSeqs(_)
SubstepSeqs(n) ==
    IF n = 0 THEN {<<>>}
    ELSE LET shorter == SubstepSeqs(n - 1)
         IN  shorter \cup {Append(s, c) : s \in {t \in shorter : Len(t) = n - 1},
                                         c \in SUBSET CollisionPairs}

InitPhysics ==
    /\ FrameAtRest
    /\ RecordAtRest
    /\ BufferAtRest
    /\ UtilsAtRest
    /\ SwapchainAtRest
    /\ CommandsAtRest
    /\ SamplersAtRest
    /\ AssetsAtRest
    /\ InputAtRest
    /\ SceneAtRest
    /\ physicsSystem = [ life |-> "alive",
                         m_PreviousTickActivePairs |-> {},
                         m_CurrentTickActivePairs |-> {},
                         delivered |-> [p \in CollisionPairs |-> "none"] ]
    /\ physicsCall = [op |-> "PhysicsSystem", events |-> <<>>]

\* PhysicsSystem::Update on an initialized system.  delivered[p] remembers the
\* last notification pair p ever received (not a member of the class).
PhysicsUpdate(substeps) ==
    /\ physicsSystem.life = "alive"
    /\ LET r == stepSimulation(PrepareTick(physicsSystem), substeps)
       IN  /\ physicsSystem' =
                [r.cb EXCEPT !.delivered =
                    [p \in CollisionPairs |-> LastDelivered(@[p], r.events, p)]]
           /\ physicsCall' = [op |-> "Update", events |-> r.events]
    /\ UNCHANGED <<frameVars, recordVars, bufferVars, utilVars, swapVars, cmdVars, samplerVars, assetVars, inputVars, sceneVars>>

NextPhysics ==
    \E substeps \in SubstepSeqs(MaxSubSteps) : PhysicsUpdate(substeps)

SpecPhysics == InitPhysics /\ [][NextPhysics]_vars

\* ------------------------------------------------------------- InputManager
\* The static key and mouse-button tables of InputManager and one pass of
\* Application::MainLoop over them: the GLFW callbacks run inside PollEvents,
\* then the frame's logic queries the tables, then InputManager::Update ends
\* the frame.  Codes run from 0 to MaxKeyCode / MaxMouseButton; the callbacks
\* and the queries are also given the codes just outside.
MAX_KEYS == MaxKeyCode + 1
MAX_MOUSE_BUTTONS == MaxMouseButton + 1

KeyCodes == 0 .. MaxKeyCode
MouseButtons == 0 .. MaxMouseButton

GLFW_RELEASE == "GLFW_RELEASE"
GLFW_PRESS == "GLFW_PRESS"
GLFW_REPEAT == "GLFW_REPEAT"
GlfwActions == {GLFW_RELEASE, GLFW_PRESS, GLFW_REPEAT}

IsKeyPressed(im, glfwKeyCode) ==
    IF glfwKeyCode < 0 \/ glfwKeyCode >= MAX_KEYS THEN FALSE
    ELSE im.s_CurrentKeyStates[glfwKeyCode] /\ ~im.s_PreviousKeyStates[glfwKeyCode]

IsKeyDown(im, glfwKeyCode) ==
    IF glfwKeyCode < 0 \/ glfwKeyCode >= MAX_KEYS THEN FALSE
    ELSE im.s_CurrentKeyStates[glfwKeyCode]

IsKeyReleased(im, glfwKeyCode) ==
    IF glfwKeyCode < 0 \/ glfwKeyCode >= MAX_KEYS THEN FALSE
    ELSE ~im.s_CurrentKeyStates[glfwKeyCode] /\ im.s_PreviousKeyStates[glfwKeyCode]

IsMouseButtonPressed(im, button) ==
    IF button < 0 \/ button >= MAX_MOUSE_BUTTONS THEN FALSE
    ELSE im.s_CurrentMouseStates[button] /\ ~im.s_PreviousMouseStates[button]

IsMouseButtonDown(im, button) ==
    IF button < 0 \/ button >= MAX_MOUSE_BUTTONS THEN FALSE
    ELSE im.s_CurrentMouseStates[button]

IsMouseButtonReleased(im, button) ==
    IF button < 0 \/ button >= MAX_MOUSE_BUTTONS THEN FALSE
    ELSE ~im.s_CurrentMouseStates[button] /\ im.s_PreviousMouseStates[button]

\* the state a press or release leaves in a table entry; GLFW_REPEAT leaves it
AfterAction(down, action) ==
    IF action = GLFW_PRESS THEN TRUE
    ELSE IF action = GLFW_RELEASE THEN FALSE
    ELSE down

\* InputManager::GlfwKeyCallback
GlfwKeyCallback(im, key, action) ==
    IF key >= 0 /\ key < MAX_KEYS
    THEN [im EXCEPT !.s_CurrentKeyStates[key] = AfterAction(@, action)]
    ELSE im

\* InputManager::GlfwMouseButtonCallback
GlfwMouseButtonCallback(im, button, action) ==
    IF button >= 0 /\ button < MAX_MOUSE_BUTTONS
    THEN [im EXCEPT !.s_CurrentMouseStates[button] = AfterAction(@, action)]
    ELSE im

InputManagerUpdate_KeepsPrevious(im) == im

\* InputManager::Update: the tables of this frame become the previous ones
InputManagerUpdate(im) ==
    [im EXCEPT !.s_PreviousKeyStates = im.s_CurrentKeyStates,
               !.s_PreviousMouseStates = im.s_CurrentMouseStates]

\* frames counted up to two
Counted(n) == IF n >= 2 THEN 2 ELSE n

\* What the frames saw of one key or button, kept beside the class: `held`
\* counts the frames in a row whose logic found it down, `pressed` counts
\* those of them in which it was reported as pressed.
Seen(seen, down, pressed) ==
    IF down
    THEN [held |-> Counted(seen.held + 1),
          pressed |-> Counted(seen.pressed + (IF pressed THEN 1 ELSE 0))]
    ELSE [held |-> 0, pressed |-> 0]

InitInput ==
    /\ FrameAtRest
    /\ RecordAtRest
    /\ BufferAtRest
    /\ UtilsAtRest
    /\ SwapchainAtRest
    /\ CommandsAtRest
    /\ SamplersAtRest
    /\ AssetsAtRest
    /\ PhysicsAtRest
    /\ SceneAtRest
    /\ inputManager = [ life |-> "alive",
                        s_CurrentKeyStates |-> [k \in KeyCodes |-> FALSE],
                        s_PreviousKeyStates |-> [k \in KeyCodes |-> FALSE],
                        s_CurrentMouseStates |-> [b \in MouseButtons |-> FALSE],
                        s_PreviousMouseStates |-> [b \in MouseButtons |-> FALSE],
                        keysSeen |-> [k \in KeyCodes |-> [held |-> 0, pressed |-> 0]],
                        buttonsSeen |-> [b \in MouseButtons |-> [held |-> 0, pressed |-> 0]] ]
    /\ inputCall = [op |-> "Init", pc |-> "PollEvents"]

\* a key event delivered by glfwPollEvents
KeyEvent(key, action) ==
    /\ inputManager.life = "alive"
    /\ inputCall.pc = "PollEvents"
    /\ inputManager' = GlfwKeyCallback(inputManager, key, action)
    /\ inputCall' = [op |-> "GlfwKeyCallback", pc |-> "PollEvents"]
    /\ UNCHANGED <<frameVars, recordVars, bufferVars, utilVars, swapVars, cmdVars, samplerVars, assetVars, physicsVars, sceneVars>>

\* a mouse-button event delivered by glfwPollEvents
MouseButtonEvent(button, action) ==
    /\ inputManager.life = "alive"
    /\ inputCall.pc = "PollEvents"
    /\ inputManager' = GlfwMouseButtonCallback(inputManager, button, action)
    /\ inputCall' = [op |-> "GlfwMouseButtonCallback", pc |-> "PollEvents"]
    /\ UNCHANGED <<frameVars, recordVars, bufferVars, utilVars, swapVars, cmdVars, samplerVars, assetVars, physicsVars, sceneVars>>

\* MainLoop after PollEvents: the frame's logic reads the tables
HandleInput ==
    /\ inputManager.life = "alive"
    /\ inputCall.pc = "PollEvents"
    /\ inputManager' =
          [inputManager EXCEPT
              !.keysSeen = [k \in KeyCodes |->
                               Seen(@[k], IsKeyDown(inputManager, k),
                                    IsKeyPressed(inputManager, k))],
              !.buttonsSeen = [b \in MouseButtons |->
                                  Seen(@[b], IsMouseButtonDown(inputManager, b),
                                       IsMouseButtonPressed(inputManager, b))]]
    /\ inputCall' = [op |-> "HandleInput", pc |-> "Update"]
    /\ UNCHANGED <<frameVars, recordVars, bufferVars, utilVars, swapVars, cmdVars, samplerVars, assetVars, physicsVars, sceneVars>>

\* MainLoop's last statement
InputUpdate ==
    /\ inputManager.life = "alive"
    /\ inputCall.pc = "Update"
    /\ inputManager' = InputManagerUpdate(inputManager)
    /\ inputCall' = [op |-> "Update", pc |-> "PollEvents"]
    /\ UNCHANGED <<frameVars, recordVars, bufferVars, utilVars, swapVars, cmdVars, samplerVars, assetVars, physicsVars, sceneVars>>

NextInput ==
    \/ \E key \in -1 .. MAX_KEYS, action \in GlfwActions : KeyEvent(key, action)
    \/ \E button \in -1 .. MAX_MOUSE_BUTTONS, action \in GlfwActions :
          MouseButtonEvent(button, action)
    \/ HandleInput
    \/ InputUpdate

SpecInput == InitInput /\ [][NextInput]_vars

\* -------------------------------------------------------------------- Scene
\* One Scene.  A GameObject is named by the number of the CreateGameObject
\* call that made it, 0 is nullptr; every object carries a camera and a
\* transform component.  m_GameObjects is the vector of owning pointers in
\* its order, m_ObjectsToDestroy the vector of marked pointers.
NullObject == 0

\* the positions of go in list
PositionsOf(list, go) == {n \in 1 .. Len(list) : list[n] = go}

\* std::remove_if ... erase: the objects of list other than go, in their order
Without(list, go) == SelectSeq(list, LAMBDA o : o # go)

\* Scene::CreateGameObject
CreateGameObject(s) ==
    [s EXCEPT !.created = @ + 1, !.m_GameObjects = Append(@, s.created + 1)]

\* Scene::DestroyGameObject
DestroyGameObject(s, gameObject) ==
    IF gameObject = NullObject THEN s
    ELSE IF PositionsOf(s.m_ObjectsToDestroy, gameObject) = {}
    THEN [s EXCEPT !.m_ObjectsToDestroy = Append(@, gameObject)]
    ELSE s

\* Scene::SetMainCamera
SetMainCamera(s, cameraObject) ==
    IF cameraObject # NullObject THEN [s EXCEPT !.m_MainCameraObject = cameraObject] ELSE s

\* std::remove_if move-assigns the next kept pointer onto the slot of goPtr,
\* which deletes the object, unless goPtr is the last element; the log
\* statement after it then reads the name of a deleted object
NameReadAfterDelete(list, goPtr) ==
    \E n \in PositionsOf(list, goPtr) : n < Len(list)

\* Scene::ProcessDestructionList from the n-th marked pointer on.  ub picks
\* what the read of a deleted object's name does: it "reads" stale bytes and
\* goes on, or it "faults" and the process ends there.
RECURSIVE ProcessDestructionList(_, _, _)
ProcessDestructionList(s, n, ub) ==
    IF n > Len(s.m_ObjectsToDestroy)
    THEN [scene |-> [s EXCEPT !.m_ObjectsToDestroy = <<>>], ret |-> "void"]
    ELSE LET goPtr == s.m_ObjectsToDestroy[n]
             found == PositionsOf(s.m_GameObjects, goPtr) # {}
             removed == [s EXCEPT !.m_GameObjects = Without(@, goPtr)]
         IN  IF found /\ NameReadAfterDelete(s.m_GameObjects, goPtr) /\ ub = "faults"
             THEN [scene |-> removed, ret |-> "crash"]
             ELSE ProcessDestructionList(
                      IF s.m_MainCameraObject = goPtr
                      THEN [removed EXCEPT !.m_MainCameraObject = NullObject]
                      ELSE removed,
                      n + 1, ub)

\* Scene::Update: the scene after it and the objects whose components were
\* updated, in order
Scene_Update(s, ub) ==
    LET r == ProcessDestructionList(s, 1, ub)
    IN  [scene |-> r.scene, ret |-> r.ret,
         updated |-> IF r.ret = "crash" THEN <<>> ELSE r.scene.m_GameObjects]

InitScene ==
    /\ FrameAtRest
    /\ RecordAtRest
    /\ BufferAtRest
    /\ UtilsAtRest
    /\ SwapchainAtRest
    /\ CommandsAtRest
    /\ SamplersAtRest
    /\ AssetsAtRest
    /\ PhysicsAtRest
    /\ InputAtRest
    /\ currentScene = [ life |-> "alive",
                        created |-> 0,
                        m_GameObjects |-> <<>>,
                        m_ObjectsToDestroy |-> <<>>,
                        m_MainCameraObject |-> NullObject ]
    /\ sceneCall = [op |-> "Scene", ret |-> "void", updated |-> <<>>]

SceneRunning == currentScene.life = "alive" /\ sceneCall.ret # "crash"

\* the pointers a caller holds: nullptr and the objects of the scene
LiveObjects == {NullObject} \cup {currentScene.m_GameObjects[n] : n \in 1 .. Len(currentScene.m_GameObjects)}

CreateGameObjectCall ==
    /\ SceneRunning
    /\ currentScene.created < MaxGameObjects
    /\ currentScene' = CreateGameObject(currentScene)
    /\ sceneCall' = [op |-> "CreateGameObject", ret |-> "void", updated |-> <<>>]
    /\ UNCHANGED <<frameVars, recordVars, bufferVars, utilVars, swapVars, cmdVars, samplerVars, assetVars, physicsVars, inputVars>>

DestroyGameObjectCall(gameObject) ==
    /\ SceneRunning
    /\ currentScene' = DestroyGameObject(currentScene, gameObject)
    /\ sceneCall' = [op |-> "DestroyGameObject", ret |-> "void", updated |-> <<>>]
    /\ UNCHANGED <<frameVars, recordVars, bufferVars, utilVars, swapVars, cmdVars, samplerVars, assetVars, physicsVars, inputVars>>

SetMainCameraCall(cameraObject) ==
    /\ SceneRunning
    /\ currentScene' = SetMainCamera(currentScene, cameraObject)
    /\ sceneCall' = [op |-> "SetMainCamera", ret |-> "void", updated |-> <<>>]
    /\ UNCHANGED <<frameVars, recordVars, bufferVars, utilVars, swapVars, cmdVars, samplerVars, assetVars, physicsVars, inputVars>>

SceneUpdateCall(ub) ==
    /\ SceneRunning
    /\ LET r == Scene_Update(currentScene, ub)
       IN  /\ currentScene' = r.scene
           /\ sceneCall' = [op |-> "Update", ret |-> r.ret, updated |-> r.updated]
    /\ UNCHANGED <<frameVars, recordVars, bufferVars, utilVars, swapVars, cmdVars, samplerVars, assetVars, physicsVars, inputVars>>

NextScene ==
    \/ CreateGameObjectCall
    \/ SceneRunning /\ \E gameObject \in LiveObjects : DestroyGameObjectCall(gameObject)
    \/ SceneRunning /\ \E cameraObject \in LiveObjects : SetMainCameraCall(cameraObject)
    \/ \E ub \in {"reads", "faults"} : SceneUpdateCall(ub)

SpecScene == InitScene /\ [][NextScene]_vars

\* ------------------------------------------------------------------ claims
\* a step of the render thread that completes BeginFrame with image in hand
BeginFrameOpensSlot(i) ==
    m_CommandBuffers'[i].state = "recording" /\ m_CommandBuffers[i].state # "recording"

\* C1: BeginFrame never resets or reopens a slot's command buffer, and
\* RecordCommands never writes a slot's uniform buffers, while work submitted
\* from that slot is unfinished on the device; at most N submitted frames are
\* unfinished at any time.
C1_NoSlotReuseWhileInFlight ==
    [][ /\ \A i \in Slots : BeginFrameOpensSlot(i) => ~SlotBusy(i)
        /\ (pc = "record" /\ pc' = "end") => ~SlotBusy(m_CurrentFrameIndex)
        /\ Len(graphicsQueue) <= MAX_FRAMES_IN_FLIGHT
        /\ Len(graphicsQueue') <= MAX_FRAMES_IN_FLIGHT ]_vars

\* slot 0 is being recorded again, after slot 1 was used, while slot 1's
\* submission is still unfinished
C1_Witness ==
    /\ pc = "end"
    /\ m_CurrentFrameIndex = 0
    /\ m_UniformBuffers[1] # "none"
    /\ SlotBusy(1)
    /\ ~SlotBusy(0)

\* C2: the frame-slot index starts at 0, advances as (i+1) mod N on every
\* EndFrameAndPresent that returns, stays in 0..N-1, and nothing else
\* changes it.
C2_SlotIndexRoundRobin ==
    [][ /\ m_CurrentFrameIndex \in Slots
        /\ m_CurrentFrameIndex' \in Slots
        /\ (lastCall.op = "none" => m_CurrentFrameIndex = 0)
        /\ (m_CurrentFrameIndex' # m_CurrentFrameIndex => pc = "end" /\ pc' = "idle")
        /\ (pc = "end" /\ pc' = "idle" =>
               m_CurrentFrameIndex' = (m_CurrentFrameIndex + 1) % MAX_FRAMES_IN_FLIGHT) ]_vars

\* the index has wrapped around: back at slot 0 after slot 1 was used
C2_Witness ==
    /\ pc = "idle"
    /\ lastCall.op = "EndFrameAndPresent"
    /\ m_CurrentFrameIndex = 0
    /\ m_UniformBuffers[1] # "none"

SameSwapchain == m_Swapchain'.gen = m_Swapchain.gen

\* C3: a submission waits on the acquire semaphore of its own frame and
\* signals its slot's render-finished semaphore and fence, the presentation
\* request of that frame waits on that render-finished semaphore; hence an
\* image starts being rendered into only once acquired, and goes back to the
\* presentation engine only once rendering into it has finished.
C3_SubmitPresentOrdering ==
    [][ /\ \A n \in 1 .. Len(graphicsQueue') :
              LET job == graphicsQueue'[n]
              IN job.wait = job.slot /\ job.signal = job.slot /\ job.fence = job.slot
        /\ (Len(presentQueue') > Len(presentQueue)) =>
              LET req == presentQueue'[Len(presentQueue')]
                  job == graphicsQueue'[Len(graphicsQueue')]
              IN req.wait = job.signal /\ req.image = job.image
        /\ SameSwapchain =>
              \A k \in DOMAIN images :
                 /\ (images'[k].st = "rendering" /\ images[k].st # "rendering")
                        => images[k].st = "acquired"
                 /\ (images'[k].st = "pe" /\ images[k].st # "pe")
                        => images[k].st = "rendered" ]_vars

\* a whole frame went through: submitted, rendered, presented
C3_Witness ==
    /\ lastCall.op = "EndFrameAndPresent"
    /\ lastCall.present = VK_SUCCESS
    /\ graphicsQueue = <<>>
    /\ presentQueue = <<>>
    /\ m_CurrentImageIndex \in DOMAIN images
    /\ images[m_CurrentImageIndex].st = "pe"
    /\ m_Swapchain.gen = 0

DependentsBuiltOn(sc) ==
    /\ m_DepthImage = CreateDepthResources(sc)
    /\ m_RenderPass = CreateRenderPass(sc)
    /\ m_GraphicsPipeline.gen = sc.gen
    /\ Len(m_SwapChainFramebuffers) = Len(sc.views)
    /\ \A i \in 1 .. Len(m_SwapChainFramebuffers) :
          /\ m_SwapChainFramebuffers[i].view = sc.views[i]
          /\ m_SwapChainFramebuffers[i].renderPass = m_RenderPass
          /\ m_SwapChainFramebuffers[i].depth = m_DepthImage
          /\ m_SwapChainFramebuffers[i].extent = sc.extent

\* C4: a stale (out-of-date) acquisition makes BeginFrame recreate the
\* swapchain and its dependents and return false; nothing is recorded,
\* submitted or presented for that frame and the slot index is unchanged.
C4_StaleAcquireSkipsFrame ==
    [][ /\ (pc = "idle" /\ pc' # "idle" /\ lastCall'.acquire = VK_ERROR_OUT_OF_DATE_KHR)
              => pc' = "spin"
        /\ ((pc = "idle" /\ pc' = "spin") \/ pc \in {"spin", "waitIdle"}) =>
              /\ pc' \in {"spin", "waitIdle", "idle", "thrown"}
              /\ m_CurrentFrameIndex' = m_CurrentFrameIndex
              /\ \A i \in Slots : m_CommandBuffers'[i].state # "recording"
              /\ m_UniformBuffers' = m_UniformBuffers
              /\ Len(graphicsQueue') <= Len(graphicsQueue)
              /\ Len(presentQueue') <= Len(presentQueue)
        /\ (pc = "waitIdle" /\ pc' = "idle") =>
              /\ lastCall'.op = "BeginFrame"
              /\ lastCall'.ret = "false"
              /\ m_Swapchain'.gen # m_Swapchain.gen
              /\ DependentsBuiltOn(m_Swapchain)' ]_vars

\* BeginFrame returned false after a stale acquisition, in the middle of a
\* slot cycle, with the swapchain rebuilt
C4_Witness ==
    /\ pc = "idle"
    /\ lastCall.op = "BeginFrame"
    /\ lastCall.acquire = VK_ERROR_OUT_OF_DATE_KHR
    /\ lastCall.ret = "false"
    /\ m_CurrentFrameIndex = 1
    /\ m_Swapchain.gen = 1


\* C5: once the swapchain is marked dirty (HandleResize, suboptimal
\* acquire, stale or suboptimal presentation), the next BeginFrame rebuilds
\* the swapchain and leaves the flag clear; marking rebuilds nothing.
C5_DirtyRebuiltByNextBeginFrame ==
    [][ /\ (pc = "idle" /\ m_FramebufferResized /\ pc' \notin {"idle", "thrown"})
              => pc' = "spin"
        /\ (pc = "waitIdle" /\ pc' = "idle") => ~m_FramebufferResized'
        /\ (m_FramebufferResized' /\ ~m_FramebufferResized)
              => (m_Swapchain' = m_Swapchain /\ dependentVars' = dependentVars) ]_vars

\* C6: EndFrameAndPresent never recreates the swapchain; on a stale or
\* suboptimal presentation, or with the resize flag set, it marks the
\* swapchain dirty, raises no error and still advances the slot index.
C6_EndFrameDefersRecreation ==
    [][ (pc = "end" /\ pc' # "end") =>
           /\ m_Swapchain' = m_Swapchain
           /\ dependentVars' = dependentVars
           /\ DOMAIN images' = DOMAIN images
           /\ (/\ lastCall'.submit = VK_SUCCESS
               /\ \/ lastCall'.present \in {VK_ERROR_OUT_OF_DATE_KHR, VK_SUBOPTIMAL_KHR}
                  \/ m_FramebufferResized)
                 => /\ m_FramebufferResized'
                    /\ pc' = "idle"
                    /\ lastCall'.ret = "void"
                    /\ m_CurrentFrameIndex' = (m_CurrentFrameIndex + 1) % MAX_FRAMES_IN_FLIGHT ]_vars

\* a frame was presented stale, the swapchain was only marked dirty and the
\* frame just submitted is still on the device
C6_Witness ==
    /\ pc = "idle"
    /\ lastCall.op = "EndFrameAndPresent"
    /\ lastCall.present = VK_ERROR_OUT_OF_DATE_KHR
    /\ m_FramebufferResized
    /\ m_CurrentFrameIndex = 1
    /\ SlotBusy(0)
    /\ m_Swapchain.gen = 0

\* C7: any result of acquisition, submission or presentation other than
\* success, out-of-date and suboptimal makes the frame call throw.
C7_UnknownResultsAreFatal ==
    \/ lastCall.acquire \in {"none", VK_SUCCESS, VK_SUBOPTIMAL_KHR, VK_ERROR_OUT_OF_DATE_KHR}
       /\ lastCall.submit \in {"none", VK_SUCCESS, VK_SUBOPTIMAL_KHR, VK_ERROR_OUT_OF_DATE_KHR}
       /\ lastCall.present \in {"none", VK_SUCCESS, VK_SUBOPTIMAL_KHR, VK_ERROR_OUT_OF_DATE_KHR}
    \/ (pc = "thrown" /\ lastCall.ret = "throw")

\* C8: the dependents are rebuilt as a whole against the current swapchain:
\* depth buffer, render pass, pipeline and every framebuffer refer to it, there
\* is one framebuffer per image view, and the acquired image index selects an
\* existing framebuffer.
C8_DependentsMatchSwapchain ==
    (~headless /\ pc # "thrown") =>
        /\ DependentsBuiltOn(m_Swapchain)
        /\ pc \in {"record", "end"} => m_CurrentImageIndex + 1 \in DOMAIN m_SwapChainFramebuffers
        /\ \A i \in Slots : m_CommandBuffers[i].framebuffer.kind # "out-of-range"
        /\ \A i \in Slots : m_CommandBuffers[i].state = "recording" /\ pc = "end"
              => m_CommandBuffers[i].framebuffer.view.gen = m_Swapchain.gen

\* after a recreation, a frame is recorded on a framebuffer of the new swapchain
C8_Witness ==
    /\ pc = "end"
    /\ m_Swapchain.gen = 1
    /\ m_CommandBuffers[m_CurrentFrameIndex].framebuffer.kind = "framebuffer"
    /\ m_CommandBuffers[m_CurrentFrameIndex].framebuffer.view = [gen |-> 1, image |-> m_CurrentImageIndex]

\* C9: the swapchain and the resources built on it are destroyed or replaced
\* only when the device is idle (nothing submitted is executing or waiting to
\* be presented), and never while the queried framebuffer size has a zero
\* width or height.
C9_RebuildOnlyWhenIdleAndNonZero ==
    [][ (m_Swapchain' # m_Swapchain \/ dependentVars' # dependentVars
            \/ DOMAIN images' # DOMAIN images) =>
           /\ graphicsQueue = <<>>
           /\ presentQueue = <<>>
           /\ width_height[1] # 0
           /\ width_height[2] # 0 ]_vars

\* the swapchain was rebuilt after frames had been submitted from both slots
C9_Witness ==
    /\ pc = "idle"
    /\ m_Swapchain.gen = 1
    /\ lastCall.ret = "false"
    /\ m_UniformBuffers[1] # "none"
    /\ m_CommandBuffers[1].state = "invalid"
    /\ m_CommandBuffers[0].state = "invalid"

\* C10: with a headless swapchain of 0 images BeginFrame returns false and
\* no frame call selects image or framebuffer 0.
C10_HeadlessSkipsFrames ==
    (headless /\ Len(m_Swapchain.views) = 0) =>
        /\ lastCall.op = "BeginFrame" => lastCall.ret = "false"
        /\ pc = "idle"
        /\ \A i \in Slots : m_CommandBuffers[i] = [state |-> "initial", framebuffer |-> NoFramebuffer]
        /\ graphicsQueue = <<>>
        /\ presentQueue = <<>>

\* BeginFrame has been called on the headless renderer
C10_Witness ==
    /\ headless
    /\ Len(m_Swapchain.views) = 0
    /\ Len(m_SwapChainFramebuffers) = 0
    /\ lastCall.op = "BeginFrame"
    /\ lastCall.ret = "false"

\* --------------------------------------------- claims on RecordCommands detail
RecordCommandsReturns == recPc = "record" /\ recPc' = "end"

\* entry n passes the handle test but its material has no descriptor set
NullMaterialEntry(n) ==
    /\ HandlesComplete(renderables[n])
    /\ ~GetMaterial(m_LoadedMaterials, renderables[n].material).descriptorSet

ValidEntry(n) ==
    /\ HandlesComplete(renderables[n])
    /\ GetMaterial(m_LoadedMaterials, renderables[n].material).descriptorSet

IsDraw(c) == c.cmd = "vkCmdDrawIndexed"

IsSoftBindingWarning(w) == w = "null-descriptor-set"

\* the renderables drawn, in the order of their draw commands
DrawnEntries == [i \in 1 .. Len(SelectSeq(commandBuffer, IsDraw)) |->
                    SelectSeq(commandBuffer, IsDraw)[i].arg]

ValidEntriesDrawnInOrder ==
    /\ \A n \in DOMAIN renderables :
          ValidEntry(n) => \E i \in DOMAIN DrawnEntries : DrawnEntries[i] = n
    /\ \A i, j \in DOMAIN DrawnEntries : i < j => DrawnEntries[i] < DrawnEntries[j]

\* C11 as stated: every RecordCommands over a list holding an entry whose
\* material has no descriptor set returns, has logged exactly one
\* null-descriptor-set warning, and has drawn every valid entry in list order.
C11_OneWarningPerCall ==
    (recPc = "end" /\ \E n \in DOMAIN renderables : NullMaterialEntry(n))
        => /\ Len(SelectSeq(log, IsSoftBindingWarning)) = 1
           /\ ValidEntriesDrawnInOrder

\* C11 (amended): RecordCommands over a list holding an entry whose material
\* has no descriptor set returns and has drawn every valid entry in list order;
\* it logs exactly one null-descriptor-set warning if the warn-once site has not
\* fired before in this process and none if it has, and the site has fired
\* afterwards.
C11_OneWarningPerProcess ==
    [][(RecordCommandsReturns /\ \E n \in DOMAIN renderables' : NullMaterialEntry(n)')
          => /\ Len(SelectSeq(log', IsSoftBindingWarning)) = (IF warnedOnce THEN 0 ELSE 1)
             /\ warnedOnce'
             /\ ValidEntriesDrawnInOrder']_vars

\* a later frame: the null-material entry is met again, nothing is logged, the
\* valid entry after it is drawn
C11_Witness ==
    /\ recPc = "end"
    /\ Len(renderables) = 2
    /\ NullMaterialEntry(1)
    /\ ValidEntry(2)
    /\ log = <<>>
    /\ warnedOnce
    /\ DrawnEntries = <<1, 2>>

\* C12: a renderable with a null mesh, transform, vertex or index buffer, or
\* whose material has no descriptor set, gets no draw command; every other
\* renderable of the list is drawn.
C12_IncompleteRenderableSkipped ==
    recPc = "end" =>
        \A n \in DOMAIN renderables :
            (\E i \in DOMAIN DrawnEntries : DrawnEntries[i] = n) <=> ValidEntry(n)

IsCmd(c, name) == c.cmd = name

CountCmd(cb, name) == Cardinality({i \in DOMAIN cb : IsCmd(cb[i], name)})

\* C13: RecordCommands begins the render pass exactly once, as the first
\* command; records the draws; then the UI collaborator's commands, if it has
\* any, inside the pass; ends the pass exactly once, as the last command; and
\* submits and presents nothing.
C13_PassThenUIThenEnd ==
    [][RecordCommandsReturns
          => /\ CountCmd(commandBuffer', "vkCmdBeginRenderPass") = 1
             /\ IsCmd(commandBuffer'[1], "vkCmdBeginRenderPass")
             /\ CountCmd(commandBuffer', "vkCmdEndRenderPass") = 1
             /\ IsCmd(commandBuffer'[Len(commandBuffer')], "vkCmdEndRenderPass")
             /\ CountCmd(commandBuffer', "ImGui_ImplVulkan_RenderDrawData")
                   = (IF uiDrawData' = "drawdata" THEN 1 ELSE 0)
             /\ CountCmd(commandBuffer', "vkCmdDrawIndexed")
                   = Cardinality({n \in DOMAIN renderables' : HandlesComplete(renderables'[n])})
             /\ \A i, j \in DOMAIN commandBuffer' :
                   (IsDraw(commandBuffer'[i])
                    /\ IsCmd(commandBuffer'[j], "ImGui_ImplVulkan_RenderDrawData")) => i < j
             /\ UNCHANGED <<graphicsQueue, presentQueue, m_CommandBuffers>>]_vars

C13_Witness ==
    /\ recPc = "end"
    /\ uiDrawData = "drawdata"
    /\ Len(DrawnEntries) = 2
    /\ IsCmd(commandBuffer[Len(commandBuffer) - 1], "ImGui_ImplVulkan_RenderDrawData")

\* ------------------------------------------------ claims on the driver loop
\* the command-buffer states a slot may move between in one step
CommandBufferMoves ==
    {<<"initial", "recording">>, <<"invalid", "recording">>, <<"recording", "pending">>,
     <<"recording", "executable">>, <<"pending", "invalid">>}

\* where MainLoop stands after each call
DriverPosition ==
    /\ (lastCall.op = "BeginFrame" /\ lastCall.ret = "true") => pc = "record"
    /\ (lastCall.op = "BeginFrame" /\ lastCall.ret = "false") => pc = "idle"
    /\ lastCall.op = "RecordCommands" => pc = "end"
    /\ (lastCall.op = "EndFrameAndPresent" /\ lastCall.ret = "void") => pc = "idle"

\* C14: RecordCommands is called only directly after a BeginFrame that returned
\* true, EndFrameAndPresent only directly after RecordCommands, and the next
\* BeginFrame only after EndFrameAndPresent or after a BeginFrame that returned
\* false; after a true BeginFrame the loop stands before RecordCommands and
\* after RecordCommands before EndFrameAndPresent.  A slot's command buffer
\* goes initial/invalid -> recording -> pending -> invalid: it is closed and
\* submitted only out of the recording state a successful BeginFrame put it in.
C14_ThreeOrderedCalls ==
    [][ /\ DriverPosition /\ DriverPosition'
        /\ (lastCall'.op = "RecordCommands" /\ lastCall' # lastCall)
              => /\ lastCall.op = "BeginFrame" /\ lastCall.ret = "true"
                 /\ m_CommandBuffers[m_CurrentFrameIndex].state = "recording"
        /\ (lastCall'.op = "EndFrameAndPresent" /\ lastCall' # lastCall)
              => /\ lastCall.op = "RecordCommands"
                 /\ m_CommandBuffers[m_CurrentFrameIndex].state = "recording"
        /\ (lastCall'.op = "BeginFrame" /\ lastCall' # lastCall)
              => \/ lastCall.op \in {"none", "EndFrameAndPresent"}
                 \/ lastCall.op = "BeginFrame" /\ lastCall.ret \in {"false", "pending"}
        /\ \A i \in Slots :
              m_CommandBuffers'[i].state # m_CommandBuffers[i].state
                 => <<m_CommandBuffers[i].state, m_CommandBuffers'[i].state>> \in CommandBufferMoves
      ]_vars

\* a frame was shown from slot 0, then the BeginFrame of slot 1 returned false
\* and the loop is back at its top with slot 1 untouched
C14_Witness ==
    /\ lastCall.op = "BeginFrame"
    /\ lastCall.ret = "false"
    /\ pc = "idle"
    /\ m_CurrentFrameIndex = 1
    /\ m_CommandBuffers[1].state = "initial"
    /\ m_CommandBuffers[0].state \in {"pending", "invalid"}

\* ---------------------------------------------------- claims on VulkanBuffer
CeilDiv(a, b) == (a + b - 1) \div b

\* C15: for every element size S >= 1, count C >= 1 and alignment A >= 1 a
\* created buffer has aligned stride ceil(S/A)*A and total size ceil(S/A)*A*C.
C15_StrideIsCeilMultiple ==
    (buffer.m_Buffer /\ buffer.minOffsetAlignment >= 1)
        => /\ buffer.m_AlignmentSize
                 = CeilDiv(buffer.m_InstanceSize, buffer.minOffsetAlignment) * buffer.minOffsetAlignment
           /\ buffer.m_BufferSize
                 = CeilDiv(buffer.m_InstanceSize, buffer.minOffsetAlignment)
                      * buffer.minOffsetAlignment * buffer.m_InstanceCount

IsMapped == buffer.m_MappedMemory.mapped

\* C16: Map on memory that is not host-visible fails and leaves the buffer
\* unmapped; Map on a mapped buffer returns success and changes nothing; Unmap
\* on an unmapped buffer changes nothing; the buffer becomes mapped only by a
\* successful Map and unmapped only by Unmap, a successful Map leaves it
\* mapped and an Unmap leaves it unmapped, and a mapping is never replaced.
C16_MapUnmapState ==
    [][ /\ (bufCall'.op = "Map" /\ buffer.m_Buffer
               /\ HOST_VISIBLE \notin buffer.m_MemoryPropertyFlags)
              => bufCall'.ret = VK_ERROR_MEMORY_MAP_FAILED /\ ~IsMapped'
        /\ (bufCall'.op = "Map" /\ IsMapped)
              => bufCall'.ret = VK_SUCCESS /\ buffer' = buffer
        /\ (bufCall'.op = "Unmap" /\ ~IsMapped) => buffer' = buffer /\ memory' = memory
        /\ (~IsMapped /\ IsMapped') => bufCall'.op = "Map" /\ bufCall'.ret = VK_SUCCESS
        /\ (IsMapped /\ ~IsMapped') => bufCall'.op = "Unmap"
        /\ (bufCall'.op = "Map" /\ bufCall'.ret = VK_SUCCESS) => IsMapped'
        /\ bufCall'.op = "Unmap" => ~IsMapped'
        /\ (IsMapped /\ IsMapped') => buffer'.m_MappedMemory = buffer.m_MappedMemory
      ]_vars

\* Map was called on a buffer mapped from byte 1 on and answered success
C16_Witness ==
    /\ bufCall.op = "Map"
    /\ bufCall.wasMapped
    /\ bufCall.ret = VK_SUCCESS
    /\ IsMapped
    /\ buffer.m_MappedMemory.base = 1

\* the bytes of the buffer after data of `size` bytes of value v went to offset
Written(mem, v, size, offset) ==
    [i \in DOMAIN mem |-> IF offset < i /\ i <= offset + size THEN v ELSE mem[i]]

\* C17: WriteToBuffer(data, size, offset) on a host-visible buffer, mapped or
\* not, with offset + size within the buffer, leaves bytes [offset, offset+size)
\* equal to data and every other byte as it was; the same write again changes
\* nothing.
C17_WriteLandsAtOffset ==
    (buffer.m_Buffer /\ HOST_VISIBLE \in buffer.m_MemoryPropertyFlags /\ bufCall.ret # "crash")
        => \A v \in DataBytes, size \in 1 .. buffer.m_BufferSize,
              offset \in 0 .. (buffer.m_BufferSize - 1) :
              offset + size <= buffer.m_BufferSize
                 => LET once == WriteToBuffer(buffer, memory, v, size, offset, VK_SUCCESS, "lands")
                        twice == WriteToBuffer(once.buffer, once.memory, v, size, offset,
                                               VK_SUCCESS, "lands")
                    IN /\ once.ret = "void"
                       /\ once.memory = Written(memory, v, size, offset)
                       /\ twice.memory = once.memory

\* C18: WriteToBuffer leaves the mapping as it found it - an unmapped buffer
\* is unmapped again, a mapped one keeps its mapping - and issues a flush only
\* for memory that is not host-coherent.
C18_WriteRestoresMapping ==
    [][bufCall'.op = "WriteToBuffer"
          => /\ buffer'.m_MappedMemory = buffer.m_MappedMemory
             /\ bufCall'.flushed => HOST_COHERENT \notin buffer.m_MemoryPropertyFlags
      ]_vars

\* a write through a temporary mapping of non-coherent memory: copied,
\* flushed, unmapped again
C18_Witness ==
    /\ bufCall.op = "WriteToBuffer"
    /\ ~bufCall.wasMapped
    /\ bufCall.ret = "void"
    /\ bufCall.flushed
    /\ ~IsMapped
    /\ \E i \in DOMAIN memory : memory[i] # 0

\* ------------------------------------------------- claims on the image utils
IsBarrier(c) == c.cmd = "vkCmdPipelineBarrier"

IsBlit(c) == c.cmd = "vkCmdBlitImage"

\* w >> k
ShiftRight(w, k) == w \div (2 ^ k)

MaxOf(a, b) == IF a >= b THEN a ELSE b

\* the k-th blit GenerateMipmaps recorded (the loop records three commands per level)
BlitOfLevel(k) == oneShot.commands[3 * k]

\* C19: with a valid device and pool, TransitionImageLayout succeeds exactly
\* for the pairs UNDEFINED -> TRANSFER_DST, TRANSFER_DST -> SHADER_READ_ONLY,
\* UNDEFINED -> DEPTH_STENCIL_ATTACHMENT, TRANSFER_DST -> TRANSFER_SRC and
\* TRANSFER_SRC -> SHADER_READ_ONLY, for which it records one barrier with
\* these layouts and submits it; for every other pair it throws
\* invalid_argument with no barrier recorded and nothing submitted.
C19_FivePairsElseNoBarrier ==
    (utilCall.op = "TransitionImageLayout" /\ utilCall.args.deviceOk) =>
        LET old == utilCall.args.oldLayout
            new == utilCall.args.newLayout
            accepted == <<old, new>> \in
                { <<"UNDEFINED", "TRANSFER_DST_OPTIMAL">>,
                  <<"TRANSFER_DST_OPTIMAL", "SHADER_READ_ONLY_OPTIMAL">>,
                  <<"UNDEFINED", "DEPTH_STENCIL_ATTACHMENT_OPTIMAL">>,
                  <<"TRANSFER_DST_OPTIMAL", "TRANSFER_SRC_OPTIMAL">>,
                  <<"TRANSFER_SRC_OPTIMAL", "SHADER_READ_ONLY_OPTIMAL">> }
        IN  /\ accepted =>
                /\ utilCall.ret \in {"blocked", "ok", "runtime_error"}
                /\ oneShot.state \in {"pending", "complete", "freed"}
                /\ utilCall.ret = "ok" => oneShot.state = "freed"
                /\ Len(oneShot.commands) = 1
                /\ IsBarrier(oneShot.commands[1])
                /\ oneShot.commands[1].oldLayout = old
                /\ oneShot.commands[1].newLayout = new
            /\ ~accepted =>
                /\ utilCall.ret = "invalid_argument"
                /\ oneShot.state \notin {"pending", "complete", "freed"}
                /\ \A n \in 1 .. Len(oneShot.commands) : ~IsBarrier(oneShot.commands[n])

C19_Witness ==
    /\ utilCall.op = "TransitionImageLayout"
    /\ utilCall.args.deviceOk
    /\ utilCall.args.oldLayout = "SHADER_READ_ONLY_OPTIMAL"
    /\ utilCall.args.newLayout = "TRANSFER_DST_OPTIMAL"
    /\ utilCall.ret = "invalid_argument"

\* C20: when GenerateMipmaps records (valid device, blit-capable format, more
\* than one level), for every level k in 1 .. mipLevels - 1 it blits level
\* k - 1 at (max(1, W >> (k-1)), max(1, H >> (k-1))) into level k at
\* (max(1, W >> k), max(1, H >> k)), and no blit has a zero dimension.
C20_MipLevelSizes ==
    (utilCall.op = "GenerateMipmaps" /\ oneShot.state = "freed") =>
        LET W == utilCall.args.texWidth
            H == utilCall.args.texHeight
            levels == utilCall.args.mipLevels
        IN  /\ Len(oneShot.commands) = 3 * (levels - 1) + 2
            /\ \A k \in 1 .. levels - 1 :
                  /\ IsBlit(BlitOfLevel(k))
                  /\ BlitOfLevel(k).srcLevel = k - 1
                  /\ BlitOfLevel(k).dstLevel = k
                  /\ BlitOfLevel(k).src = << MaxOf(1, ShiftRight(W, k - 1)),
                                             MaxOf(1, ShiftRight(H, k - 1)) >>
                  /\ BlitOfLevel(k).dst = << MaxOf(1, ShiftRight(W, k)),
                                             MaxOf(1, ShiftRight(H, k)) >>
            /\ \A n \in 1 .. Len(oneShot.commands) :
                  IsBlit(oneShot.commands[n]) =>
                      /\ oneShot.commands[n].src[1] >= 1 /\ oneShot.commands[n].src[2] >= 1
                      /\ oneShot.commands[n].dst[1] >= 1 /\ oneShot.commands[n].dst[2] >= 1

\* a 4 x 3 texture with four levels: both dimensions reach 1 and stay there
C20_Witness ==
    /\ utilCall.op = "GenerateMipmaps"
    /\ oneShot.state = "freed"
    /\ utilCall.args.texWidth = 4
    /\ utilCall.args.texHeight = 3
    /\ utilCall.args.mipLevels = 4
    /\ BlitOfLevel(3).src = <<1, 1>>
    /\ BlitOfLevel(3).dst = <<1, 1>>

\* ------------------------------------------- claims on mip generation layouts
\* the call recorded its commands and handed them to the queue
OneShotSubmitted == oneShot.state \in {"pending", "complete", "freed"}

CoversLevel(c, level) ==
    IsBarrier(c) /\ level >= c.baseMipLevel /\ level < c.baseMipLevel + c.levelCount

\* the barriers among the first n - 1 commands that cover the level
BarriersBefore(level, n) ==
    {m \in 1 .. n - 1 : CoversLevel(oneShot.commands[m], level)}

\* the layout of a mip level when command n executes; AssetManager::LoadTexture
\* hands every level over in TRANSFER_DST_OPTIMAL
LayoutBefore(level, n) ==
    IF BarriersBefore(level, n) = {}
    THEN "TRANSFER_DST_OPTIMAL"
    ELSE LET last == CHOOSE m \in BarriersBefore(level, n) :
                         \A k \in BarriersBefore(level, n) : k <= m
         IN  oneShot.commands[last].newLayout

\* C21: GenerateMipmaps called for a format without linear-filter support
\* returns without recording or submitting any command.
C21_RefusesWithoutLinearFilter ==
    (utilCall.op = "GenerateMipmaps" /\ ~utilCall.args.linearFilter) =>
        /\ oneShot.state = "none"
        /\ oneShot.commands = <<>>

\* C22: in the commands GenerateMipmaps records for two or more levels, at
\* each blit the source level is in TRANSFER_SRC and the destination level in
\* TRANSFER_DST; a level is blitted into before it is blitted from (level 0,
\* filled by the caller's copy, is only a source); every barrier names the
\* layout the level is in (or UNDEFINED); at the end every level is in
\* SHADER_READ_ONLY, levels 0 .. n-2 coming from TRANSFER_SRC and level n-1
\* from TRANSFER_DST.
C22_BlitLayouts ==
    (utilCall.op = "GenerateMipmaps" /\ OneShotSubmitted) =>
        LET cmds == oneShot.commands
            N == Len(cmds)
            levels == utilCall.args.mipLevels
        IN  /\ levels >= 2
            /\ \A n \in 1 .. N : IsBlit(cmds[n]) =>
                  /\ LayoutBefore(cmds[n].srcLevel, n) = "TRANSFER_SRC_OPTIMAL"
                  /\ LayoutBefore(cmds[n].dstLevel, n) = "TRANSFER_DST_OPTIMAL"
                  /\ cmds[n].srcLevel >= 1 =>
                        \E p \in 1 .. n - 1 :
                            IsBlit(cmds[p]) /\ cmds[p].dstLevel = cmds[n].srcLevel
                  /\ \A q \in 1 .. n - 1 :
                        IsBlit(cmds[q]) => cmds[q].srcLevel # cmds[n].dstLevel
            /\ \A n \in 1 .. N, level \in 0 .. levels - 1 :
                  CoversLevel(cmds[n], level) =>
                      cmds[n].oldLayout \in {"UNDEFINED", LayoutBefore(level, n)}
            /\ \A level \in 0 .. levels - 1 :
                  /\ LayoutBefore(level, N + 1) = "SHADER_READ_ONLY_OPTIMAL"
                  /\ \E n \in 1 .. N :
                        /\ CoversLevel(cmds[n], level)
                        /\ cmds[n].newLayout = "SHADER_READ_ONLY_OPTIMAL"
                        /\ cmds[n].oldLayout = IF level = levels - 1
                                               THEN "TRANSFER_DST_OPTIMAL"
                                               ELSE "TRANSFER_SRC_OPTIMAL"
                        /\ LayoutBefore(level, n) = cmds[n].oldLayout

C22_Witness ==
    /\ utilCall.op = "GenerateMipmaps"
    /\ utilCall.ret = "ok"
    /\ oneShot.state = "freed"
    /\ utilCall.args.mipLevels = 3
    /\ Len(oneShot.commands) = 8

\* ------------------------------------------------ claims on one-shot commands
\* C23: EndSingleTimeCommands submits under a fence created unsignaled in the
\* same call and does not return then; it returns only when the fence is
\* signaled, that is when the device has finished the work; the fence is
\* destroyed and the command buffer freed only from that state, never while
\* the work is pending.
C23_BlockingOneShot ==
    [][ /\ (oneShot'.state = "pending" /\ utilCall'.ret # utilCall.ret) =>
               /\ oneShot'.fence = "unsignaled"
               /\ utilCall'.ret \in {"blocked", "runtime_error"}
        /\ (utilCall.ret = "blocked" /\ utilCall'.ret = "ok") =>
               /\ oneShot.fence = "signaled"
               /\ oneShot.state = "complete"
        /\ (oneShot'.fence = "destroyed" /\ oneShot.fence # "destroyed") =>
               oneShot.state = "complete"
        /\ (oneShot'.state = "freed" /\ oneShot.state # "freed") =>
               oneShot.state = "complete"
        /\ oneShot'.state = "pending" => oneShot'.fence = "unsignaled"
      ]_vars

C23_Witness ==
    /\ utilCall.op = "TransitionImageLayout"
    /\ utilCall.ret = "ok"
    /\ oneShot.state = "freed"
    /\ oneShot.fence = "destroyed"

\* ------------------------------------------------------ claims on Swapchain
\* the last call reached vkCreateSwapchainKHR
CreationReached == scCall.op \in {"Swapchain", "Recreate"} /\ scCall.hint # "none"

\* the last call created a swapchain
SwapchainCreated == CreationReached /\ scCall.ret = "ok"

MinOf(a, b) == IF a <= b THEN a ELSE b

\* C24: the image count requested at creation is min + 1, capped at max
\* when max > 0; it is never below min and never above a max > 0.
C24_RequestedImageCount ==
    CreationReached =>
        /\ swapchain.minImageCount =
               IF surface.maxImageCount > 0
               THEN MinOf(surface.minImageCount + 1, surface.maxImageCount)
               ELSE surface.minImageCount + 1
        /\ swapchain.minImageCount >= surface.minImageCount
        /\ surface.maxImageCount > 0 => swapchain.minImageCount <= surface.maxImageCount

\* the cap applies: min + 1 would exceed max
C24_Witness ==
    /\ SwapchainCreated
    /\ surface.maxImageCount = surface.minImageCount
    /\ swapchain.minImageCount = surface.maxImageCount
    /\ Len(swapchain.m_SwapChainImages) = surface.maxImageCount

\* C25: a created swapchain has the capability's current extent when that is
\* fixed, whatever size was requested, and otherwise the requested width and
\* height each clamped to the capability's [min, max].
C25_ExtentSelection ==
    SwapchainCreated =>
        IF surface.currentExtent # <<UINT32_MAX, UINT32_MAX>>
        THEN swapchain.m_SwapChainExtent = surface.currentExtent
        ELSE /\ swapchain.m_SwapChainExtent[1] =
                    MaxOf(surface.minImageExtent[1],
                          MinOf(swapchain.m_CurrentWindowWidth, surface.maxImageExtent[1]))
             /\ swapchain.m_SwapChainExtent[2] =
                    MaxOf(surface.minImageExtent[2],
                          MinOf(swapchain.m_CurrentWindowHeight, surface.maxImageExtent[2]))

\* unconstrained: the width is clamped down, the height is clamped up
C25_Witness ==
    /\ SwapchainCreated
    /\ surface.currentExtent = <<UINT32_MAX, UINT32_MAX>>
    /\ swapchain.m_CurrentWindowWidth > surface.maxImageExtent[1]
    /\ swapchain.m_CurrentWindowHeight < surface.minImageExtent[2]
    /\ swapchain.m_SwapChainExtent = <<surface.maxImageExtent[1], surface.minImageExtent[2]>>

C27_OldAliveAtCreation ==
    /\ scCall.op = "Recreate" => scCall.hint # "destroyed"
    /\ \A h \in 1 .. Len(vkSwapchains) : vkSwapchains[h] <= 1

C29_BoundsCheckedSlots ==
    [][ (cmdManager'.life = "alive" /\ cmdManager'.m_CommandPool) =>
            LET N == cmdManager'.m_FrameCount
                i == cmdCall'.frameIndex
            IN  /\ Len(cmdManager'.m_CommandBuffers) = N
                /\ cmdManager'.allocations = 1
                /\ \A k \in 1 .. N : cmdManager'.m_CommandBuffers[k].handle = k
                /\ cmdCall'.op \in {"BeginFrameRecording", "EndFrameRecording",
                                    "GetCommandBuffer"} =>
                      /\ i >= N => /\ cmdCall'.ret = "out_of_range"
                                   /\ cmdManager' = cmdManager
                      /\ i < N  => /\ cmdCall'.ret # "out_of_range"
                                   /\ \A k \in 1 .. N :
                                         k # i + 1 => cmdManager'.m_CommandBuffers[k] =
                                                      cmdManager.m_CommandBuffers[k]
      ]_vars

\* an index just past the end was refused while a buffer is recording
C29_Witness ==
    /\ cmdManager.life = "alive"
    /\ cmdManager.m_CommandPool
    /\ cmdCall.op = "BeginFrameRecording"
    /\ cmdCall.frameIndex = cmdManager.m_FrameCount
    /\ cmdCall.ret = "out_of_range"
    /\ \E k \in 1 .. cmdManager.m_FrameCount : cmdManager.m_CommandBuffers[k].state = "recording"

\* --------------------------------------------------- claims on SamplerCache
\* the sampler objects created for one key, and the entries kept for it
CreatedFor(info) ==
    {g \in 1 .. Len(samplerCache.vkSamplers) :
        SamplerInfoKeyEq(samplerCache.vkSamplers[g].info, info)}

AtMostOnePerKey ==
    samplerCache.life = "alive" =>
        /\ \A g \in 1 .. Len(samplerCache.vkSamplers) :
              Cardinality(CreatedFor(samplerCache.vkSamplers[g].info)) = 1
        /\ \A e \in samplerCache.m_SamplerMap : e.sampler # VK_NULL_HANDLE
        /\ \A e \in samplerLog :
              e.ret = VK_NULL_HANDLE =>
                 \/ SamplerMapFind(samplerCache.m_SamplerMap, e.info) = {}
                 \/ \E s \in samplerLog : /\ SamplerInfoKeyEq(s.info, e.info)
                                          /\ s.ret # VK_NULL_HANDLE
                                          /\ ~s.found

\* C30 as stated: any two GetOrCreateSampler calls with equal keys return the
\* same handle, at most one sampler is created per key, and no null handle is
\* stored.
C30_EqualKeysSameHandle ==
    /\ \A a, b \in samplerLog : SamplerInfoKeyEq(a.info, b.info) => a.ret = b.ret
    /\ AtMostOnePerKey

\* C30, amended: any two GetOrCreateSampler calls with equal keys that both
\* return a sampler return the same handle (a call whose creation fails
\* returns the null handle, and a later call with that key may succeed); at
\* most one sampler is created per key, every entry of the cache holds a
\* non-null handle, and a failed creation leaves no entry.
C30_EqualKeysSameSampler ==
    /\ \A a, b \in samplerLog :
          (/\ SamplerInfoKeyEq(a.info, b.info)
           /\ a.ret # VK_NULL_HANDLE
           /\ b.ret # VK_NULL_HANDLE) => a.ret = b.ret
    /\ AtMostOnePerKey

\* one key failed to create, was then created, and was then found; another
\* key has its own sampler
C30_Witness ==
    /\ samplerCache.life = "alive"
    /\ \E a, b, c \in samplerLog :
          /\ SamplerInfoKeyEq(a.info, b.info) /\ SamplerInfoKeyEq(b.info, c.info)
          /\ a.ret = VK_NULL_HANDLE
          /\ b.ret # VK_NULL_HANDLE /\ ~b.found
          /\ c.found /\ c.ret = b.ret
    /\ Len(samplerCache.vkSamplers) >= 2

\* ------------------------------------------- claims on the frame renderer, II
\* a step of the render thread inside RecreateSwapchain: entering it from
\* BeginFrame, one turn of its size loop, or its rebuild
RecreateSwapchainStep ==
    \/ pc = "idle" /\ pc' = "spin"
    \/ pc = "spin" /\ (pc' # pc \/ width_height' # width_height)
    \/ pc = "waitIdle" /\ pc' # pc

\* C31: the per-slot objects created at startup are never destroyed or
\* created again, and a step of RecreateSwapchain changes neither them, nor
\* the state of the fences, semaphores, command buffers and uniform buffers,
\* nor the frame-slot index.
C31_RecreationKeepsSlotObjects ==
    [][ /\ slotObjects' = slotObjects
        /\ RecreateSwapchainStep =>
              /\ m_CurrentFrameIndex' = m_CurrentFrameIndex
              /\ m_InFlightFences' = m_InFlightFences
              /\ m_ImageAvailableSemaphores' = m_ImageAvailableSemaphores
              /\ m_RenderFinishedSemaphores' = m_RenderFinishedSemaphores
              /\ m_CommandBuffers' = m_CommandBuffers
              /\ m_UniformBuffers' = m_UniformBuffers
      ]_vars

\* a swapchain was recreated while slot 1 is current and a command buffer and
\* a uniform buffer have been used
C31_Witness ==
    /\ ~headless
    /\ m_Swapchain.gen >= 1
    /\ lastCall.op = "BeginFrame" /\ lastCall.ret = "false"
    /\ m_CurrentFrameIndex = 1
    /\ slotObjects = InitVulkanSlotObjects
    /\ \E i \in Slots : m_CommandBuffers[i].state # "initial"
    /\ \E i \in Slots : m_UniformBuffers[i] # "none"

\* ------------------------------------------------------ claims on materials
\* the material name was processed before this call
ProcessedBefore(name) ==
    \E h \in 1 .. Len(assetManager.m_LoadedMaterials) :
        assetManager.m_LoadedMaterials[h].name = name

\* C32: a LoadModel that processes a material name processed before gets the
\* handle of the existing material of that name, and the call allocates at
\* most one descriptor set per name it sees for the first time.
C32_OneSetPerUniqueMaterial ==
    [][ (assetCall'.op = "LoadModel" /\ assetCall'.ret = "loaded") =>
           LET names == assetCall'.materials
               fresh == {names[k] : k \in 1 .. Len(names)} \ {n \in MaterialNames : ProcessedBefore(n)}
           IN  /\ \A k \in 1 .. Len(names) :
                     ProcessedBefore(names[k]) =>
                        /\ assetCall'.handles[k] < Len(assetManager.m_LoadedMaterials)
                        /\ assetManager.m_LoadedMaterials[assetCall'.handles[k] + 1].name = names[k]
               /\ assetManager'.allocated - assetManager.allocated <= Cardinality(fresh)
      ]_vars

PresentsWaitingOn(s) == {n \in 1 .. Len(presentQueue) : presentQueue[n].wait = s}

\* C34: when a submission signals its slot's render-finished semaphore, the
\* only queued presentation waiting on that semaphore is the one of the same
\* frame: no earlier presentation is still to consume it.
C34_RenderFinishedNotReused ==
    [][ (graphicsQueue # <<>> /\ graphicsQueue' = Tail(graphicsQueue)) =>
           Cardinality(PresentsWaitingOn(Head(graphicsQueue).signal)) <= 1
      ]_vars

\* C35: once a transfer helper has returned or raised, the command buffer it
\* allocated with BeginSingleTimeCommands has been freed (or none was
\* allocated).
C35_OneShotFreedOnExit ==
    utilCall.ret \in {"ok", "invalid_argument", "runtime_error"} =>
        oneShot.state \in {"none", "freed"}

\* C36: whatever the offset (also at or past the end of the buffer), a
\* WriteToBuffer with size = VK_WHOLE_SIZE copies at most
\* max(0, m_BufferSize - offset) bytes, and no WriteToBuffer copies to a byte
\* at or past m_BufferSize.
C36_WriteStaysInBuffer ==
    (buffer.m_Buffer /\ HOST_VISIBLE \in buffer.m_MemoryPropertyFlags /\ bufCall.ret # "crash")
        => \A size \in BufferSizes, offset \in 0 .. (buffer.m_BufferSize + 1) :
              LET mapped == IF buffer.m_MappedMemory.mapped
                            THEN [ret |-> VK_SUCCESS, buffer |-> buffer]
                            ELSE Map(buffer,
                                     IF size = VK_WHOLE_SIZE THEN buffer.m_BufferSize ELSE size,
                                     offset, VK_SUCCESS)
                  n == CopyLength(mapped.buffer, size, offset)
                  target == CopyTarget(mapped.buffer, size, offset)
              IN  mapped.ret = VK_SUCCESS =>
                     /\ size = VK_WHOLE_SIZE =>
                            n <= MaxOf(0, buffer.m_BufferSize - offset)
                     /\ n > 0 => target + n <= buffer.m_BufferSize

\* -------------------------------------------- claims on collision notifications
\* the notifications of events that went to pair p
PairEvents(events, p) == SelectSeq(events, LAMBDA e : e.pair = p)

\* after a last notification `last`, the notifications of events alternate:
\* never two of one kind in a row, and the first ever is an Enter
RECURSIVE Alternates(_, _)
Alternates(last, events) ==
    \/ events = <<>>
    \/ /\ Head(events).kind # last
       /\ last = "none" => Head(events).kind = OnCollisionEnter
       /\ Alternates(Head(events).kind, Tail(events))

\* C37: over any sequence of Update calls the notifications of each pair
\* alternate, OnCollisionEnter first: two Enters are separated by an Exit and
\* two Exits by an Enter.
C37_NotificationsAlternate ==
    [][ physicsCall'.op = "Update" =>
           \A p \in CollisionPairs :
               Alternates(physicsSystem.delivered[p], PairEvents(physicsCall'.events, p))
      ]_vars

Elements(list) == {list[n] : n \in 1 .. Len(list)}

\* C39: DestroyGameObject leaves m_GameObjects as it is and marks an object at
\* most once; the next Update leaves exactly the unmarked objects, in their
\* order, updates the components of exactly those, and clears the main camera
\* if and only if its object was marked.
C39_DeferredDestruction ==
    [][ /\ sceneCall'.op = "DestroyGameObject" =>
              /\ currentScene'.m_GameObjects = currentScene.m_GameObjects
              /\ \A go \in Elements(currentScene'.m_ObjectsToDestroy) :
                    Cardinality(PositionsOf(currentScene'.m_ObjectsToDestroy, go)) = 1
        /\ sceneCall'.op = "Update" =>
              LET marked == Elements(currentScene.m_ObjectsToDestroy)
                  kept == SelectSeq(currentScene.m_GameObjects, LAMBDA o : o \notin marked)
              IN  /\ currentScene'.m_GameObjects = kept
                  /\ sceneCall'.updated = kept
                  /\ currentScene'.m_ObjectsToDestroy = <<>>
                  /\ currentScene'.m_MainCameraObject =
                        (IF currentScene.m_MainCameraObject \in marked
                         THEN NullObject ELSE currentScene.m_MainCameraObject)
      ]_vars

====
